---- MODULE Spec2Model ----
(***************************************************************************)
(* Contacts REST backend: the account lifecycle (register, login, refresh, *)
(* confirm e-mail, password reset, avatar update), the JWT issuer/verifier *)
(* and the Redis session cache, as state machines over the users table,    *)
(* the cache and the wall clock.                                           *)
(***************************************************************************)
EXTENDS Integers, Sequences, FiniteSets, TLC

\* ------------------------------------------------------------------ bounds
\* Rows the users table may hold, and clock jumps a behaviour may take.
MaxUsers == 1
MaxTicks == 1

\* ------------------------------------------------------- program constants
JWT_EXPIRATION_SECONDS == 3600
JWT_REFRESH_EXPIRATION_MINUTES == 10080
EMAIL_TOKEN_DAYS == 7
CACHE_TTL == 3600

\* Python's None where a string is expected.
NoneV == "none"

\* -------------------------------------------------------- request universe
\* One username is also a well-formed e-mail address: UserCreate.username is
\* an unconstrained str.
Usernames == {"alice", "bob@x.com"}
Emails == {"alice@x.com", "bob@x.com"}
Passwords == {"pw1", "pw2"}
RoleInputs == {NoneV, "user", "admin", "guest"}
Subjects == Usernames \cup Emails \cup {"nobody", "nobody@x.com"}

\* The clock advances by one second, by the access/cache lifetime, or past
\* the refresh/e-mail token lifetime.
Jumps == {1, 3600, 604801}

RECURSIVE TimesWithin(_)
TimesWithin(n) ==
    IF n = 0 THEN {0}
    ELSE LET prev == TimesWithin(n - 1)
         IN  prev \cup {t + d : t \in prev, d \in Jumps}

Times == TimesWithin(MaxTicks)

\* ------------------------------------------------------ credential hasher
\* passlib bcrypt: the hash embeds the scheme and a salt; verification
\* recomputes the digest of the candidate under the stored salt.
Salts == {"salt1"}

\* bcrypt reads the first 72 bytes of the password and passlib passes
\* longer ones on as they are. "A72" stands for a password of exactly 72
\* bytes, "A72x" and "A72y" for two passwords of 73 bytes that begin with
\* it; every other password of the model is shorter.
LongPasswords == {"A72x", "A72y"}
Truncate72(password) == IF password \in LongPasswords THEN "A72" ELSE password

NoHash == [scheme |-> NoneV, salt |-> NoneV, digest |-> <<NoneV, NoneV>>]

get_password_hash(password, salt) ==
    [scheme |-> "bcrypt", salt |-> salt,
     digest |-> <<salt, Truncate72(password)>>]

\* CryptContext.verify first identifies the scheme of the stored string
\* among the context's schemes (bcrypt alone) and raises UnknownHashError
\* when it cannot; Hash.verify_password has no handler for it.
verify_password_raises(plain_password, hashed_password) ==
    hashed_password.scheme # "bcrypt"

\* verify_password returned True.
verify_password(plain_password, hashed_password) ==
    /\ ~verify_password_raises(plain_password, hashed_password)
    /\ hashed_password.digest
           = <<hashed_password.salt, Truncate72(plain_password)>>

\* ------------------------------------------------------------------ tokens
\* A JWT is determined by its signing key and its payload; exp and iat are
\* whole seconds, so two tokens with the same payload issued under the same
\* key in the same second are the same string.
NoToken ==
    [key |-> NoneV, sub |-> NoneV, token_type |-> NoneV, scope |-> NoneV,
     iat |-> -1, exp |-> -1]

NoDelta == [given |-> FALSE, v |-> 0]
Delta(n) == [given |-> TRUE, v |-> n]
\* Python truthiness of Optional[int]: None and 0 are falsy.
Truthy(d) == d.given /\ d.v # 0

\* Mutant: the access token is signed with the refresh secret.
create_access_token_RefreshSecret(sub, expires_delta, t) ==
    [NoToken EXCEPT
        !.key = "JWT_REFRESH_SECRET",
        !.sub = sub,
        !.exp = IF Truthy(expires_delta)
                THEN t + expires_delta.v
                ELSE t + JWT_EXPIRATION_SECONDS]

create_access_token(sub, expires_delta, t) ==
    [NoToken EXCEPT
        !.key = "JWT_SECRET",
        !.sub = sub,
        !.exp = IF Truthy(expires_delta)
                THEN t + expires_delta.v
                ELSE t + JWT_EXPIRATION_SECONDS]

create_refresh_token(sub, expires_delta, t) ==
    [NoToken EXCEPT
        !.key = "JWT_REFRESH_SECRET",
        !.sub = sub,
        !.token_type = "refresh",
        !.exp = IF Truthy(expires_delta)
                THEN t + expires_delta.v * 60
                ELSE t + JWT_REFRESH_EXPIRATION_MINUTES * 60]

create_email_token(sub, scope, t) ==
    [NoToken EXCEPT
        !.key = "JWT_SECRET",
        !.sub = sub,
        !.scope = scope,
        !.iat = t,
        !.exp = t + EMAIL_TOKEN_DAYS * 86400]

\* Mutant: the signature is not checked against the key.
jwt_decode_AnyKey(token, key, t) ==
    IF ~(token.exp < t)
    THEN [ok |-> TRUE, payload |-> token]
    ELSE [ok |-> FALSE, payload |-> NoToken]

\* jose.jwt.decode: the signature must verify under the given key and the
\* token must not be past its exp (exp < now is expired).
jwt_decode(token, key, t) ==
    IF token.key = key /\ ~(token.exp < t)
    THEN [ok |-> TRUE, payload |-> token]
    ELSE [ok |-> FALSE, payload |-> NoToken]

\* --------------------------------------------------------------- the state
VARIABLES
    users,      \* the users table: a sequence of rows, id = position
    cache,      \* the Redis store: key "user:"+name -> entry
    now,        \* wall clock, whole seconds
    ticks,      \* clock jumps taken so far
    last,       \* the request being answered and its response
    pre,        \* history: the table and the cache as that request found them
    confirmations,  \* history: ids whose confirmation request has succeeded
    latest,     \* history: per username, the refresh token issued last
    lg,         \* the logins in flight, one per client
    commits,    \* history: the commits of those logins, in order
    resolved,   \* history: the last identity resolution answered 200
    proc,       \* the server process: the module global redis and its tasks
    contacts,   \* the contacts table and its id sequence
    reg,        \* the registrations in flight, one per client
    used        \* history, kept in SpecReset: the reset tokens honoured

vars == <<users, cache, now, ticks, last, pre, confirmations, latest, lg,
          commits, resolved, proc, contacts, reg, used>>

NoSnapshot ==
    [id |-> NoneV, username |-> NoneV, email |-> NoneV, confirmed |-> FALSE,
     role |-> NoneV]
NoEntry == [present |-> FALSE, value |-> NoSnapshot, expires_at |-> 0]

NoRole == [kind |-> NoneV, value |-> NoneV]
NoIdentity ==
    [id |-> NoneV, username |-> NoneV, email |-> NoneV, confirmed |-> FALSE,
     role |-> NoRole]

\* What became of the mail task a request queued with
\* background_tasks.add_task: whether the message went out, whether the
\* failure was logged by the task, whether the task ended in an exception.
NoMailTask ==
    [queued |-> FALSE, outcome |-> NoneV, sent |-> FALSE, logged |-> FALSE,
     raised |-> FALSE]

\* How FastMail.send_message ends: normally, with the ConnectionErrors
\* fastapi_mail raises when the SMTP connection cannot be set up, or with
\* another exception (the SMTP server refusing the recipient).
SmtpOutcomes == {"ok", "ConnectionErrors", "SMTPRecipientsRefused"}

\* Mutant: the task lets the connection error out.
send_email_Reraises(smtp) ==
    [queued |-> TRUE, outcome |-> smtp, sent |-> smtp = "ok",
     logged |-> FALSE, raised |-> smtp # "ok"]

\* send_email: try: ... await fm.send_message(...)
\*             except ConnectionErrors as err: logger.error(...)
send_email(smtp) ==
    [queued |-> TRUE, outcome |-> smtp, sent |-> smtp = "ok",
     logged |-> smtp = "ConnectionErrors",
     raised |-> smtp \notin {"ok", "ConnectionErrors"}]

\* send_password_reset_email: the same try/except around send_message.
send_password_reset_email(smtp) ==
    [queued |-> TRUE, outcome |-> smtp, sent |-> smtp = "ok",
     logged |-> smtp = "ConnectionErrors",
     raised |-> smtp \notin {"ok", "ConnectionErrors"}]

\* A contact request body. ContactUpdate leaves out the fields the client
\* did not send ("unset"); model_dump(exclude_unset=True) keeps the ones it
\* sent, a null included.
Unset == "unset"
NoBody == [first_name |-> Unset, email |-> Unset, additional_data |-> Unset]

NoRequest ==
    [op |-> "none", status |-> 0, username |-> NoneV, email |-> NoneV,
     password |-> NoneV, role |-> NoneV, token |-> NoToken, up |-> TRUE,
     access_token |-> NoToken, refresh_token |-> NoToken, mail |-> NoToken,
     detail |-> NoneV, identity |-> NoIdentity, read |-> FALSE,
     expires_delta |-> NoDelta, issued_at |-> -1, payload |-> NoToken,
     returned |-> NoneV, task |-> NoMailTask, hashed |-> NoHash,
     plain |-> NoneV, verified |-> FALSE, raised |-> FALSE,
     contact_id |-> 0, body |-> NoBody, result |-> {}]

\* The server takes the next request once the response to the previous one
\* has gone out.
Idle == last.op = "none"

\* The contacts table: its rows, and the next value of its id sequence (a
\* deleted row's id is not given out again).
NoContacts == [rows |-> {}, next_id |-> 1]

NoPre ==
    [users |-> <<>>, cache |-> [k \in Subjects |-> NoEntry],
     contacts |-> NoContacts, used |-> {}]

\* Every handler records the state it starts from.
Observe ==
    pre' = [users |-> users, cache |-> cache, contacts |-> contacts,
            used |-> used]

\* Two clients log in concurrently in SpecRace.
Clients == {1, 2}

NoRow ==
    [id |-> 0, username |-> NoneV, email |-> NoneV,
     hashed_password |-> [scheme |-> NoneV, salt |-> NoneV,
                          digest |-> <<NoneV, NoneV>>],
     avatar |-> <<NoneV, NoneV>>, confirmed |-> FALSE,
     refresh_token |-> NoToken, role |-> NoneV]

NoLogin ==
    [pc |-> "idle", username |-> NoneV, password |-> NoneV, user |-> NoRow,
     access_token |-> NoToken, refresh_token |-> NoToken, status |-> 0]

\* A registration in flight: the request body and where the handler stands.
NoReg ==
    [pc |-> "idle", username |-> NoneV, email |-> NoneV, status |-> 0]
NoRegs == [c \in Clients |-> NoReg]

NoResolution ==
    [token |-> NoToken, identity |-> NoIdentity, read |-> FALSE, at |-> 0]

\* The coroutines of one server process (one event loop), and how many
\* times each calls get_redis.
Tasks == {1, 2, 3}
MaxCalls == 2

\* redis_cache.redis is None (0) until a client is made; clients are told
\* apart by the ordinal of the Redis.from_url call that made them.
NoTask == [pc |-> "idle", client |-> 0, calls |-> 0]
NoProc == [redis |-> 0, from_url |-> 0, task |-> [t \in Tasks |-> NoTask]]

Init ==
    /\ users = <<>>
    /\ cache = [k \in Subjects |-> NoEntry]
    /\ now = 0
    /\ ticks = 0
    /\ last = NoRequest
    /\ pre = NoPre
    /\ confirmations = {}
    /\ latest = [u \in Usernames |-> NoToken]
    /\ lg = [c \in Clients |-> NoLogin]
    /\ commits = <<>>
    /\ resolved = NoResolution
    /\ proc = NoProc
    /\ contacts = NoContacts
    /\ reg = NoRegs
    /\ used = {}

\* ------------------------------------------------------------ repository
\* Row position of the user with the given username / e-mail, 0 when absent
\* (scalar_one_or_none).
get_user_by_username(tbl, username) ==
    IF \E i \in DOMAIN tbl : tbl[i].username = username
    THEN CHOOSE i \in DOMAIN tbl : tbl[i].username = username
    ELSE 0

get_user_by_email(tbl, email) ==
    IF \E i \in DOMAIN tbl : tbl[i].email = email
    THEN CHOOSE i \in DOMAIN tbl : tbl[i].email = email
    ELSE 0

\* libgravatar: the image URL is a function of the address.
Gravatar(email) == <<"gravatar", email>>

\* Mutant: the confirmed column defaults to true.
repo_create_user_confirmed(tbl, username, email, hashed, avatar, role) ==
    Append(tbl,
        [id |-> Len(tbl) + 1, username |-> username, email |-> email,
         hashed_password |-> hashed, avatar |-> avatar, confirmed |-> TRUE,
         refresh_token |-> NoToken, role |-> role])

\* UserRepository.create_user: confirmed and refresh_token take the column
\* defaults.
repo_create_user(tbl, username, email, hashed, avatar, role) ==
    Append(tbl,
        [id |-> Len(tbl) + 1, username |-> username, email |-> email,
         hashed_password |-> hashed, avatar |-> avatar, confirmed |-> FALSE,
         refresh_token |-> NoToken, role |-> role])

\* UserService.create_user: the role of the request, "user" when falsy.
create_user(tbl, username, email, hashed, role) ==
    repo_create_user(tbl, username, email, hashed, Gravatar(email),
                   IF role # NoneV THEN role ELSE "user")

\* --------------------------------------------------------------- handlers
\* Mutant: only the e-mail address is checked for a duplicate.
RegisterGate_EmailOnly(tbl, username, email) ==
    IF get_user_by_email(tbl, email) # 0
    THEN [status |-> 409, detail |-> "email"]
    ELSE [status |-> 201, detail |-> NoneV]

\* register_user, the duplicate checks: e-mail first, then username.
RegisterGate(tbl, username, email) ==
    IF get_user_by_email(tbl, email) # 0
    THEN [status |-> 409, detail |-> "email"]
    ELSE IF get_user_by_username(tbl, username) # 0
    THEN [status |-> 409, detail |-> "username"]
    ELSE [status |-> 201, detail |-> NoneV]

\* The table grows while it holds at most MaxUsers accounts, an account
\* being told apart by its username or by its e-mail address.
WithinPopulation(tbl) ==
    \/ Cardinality({tbl[i].username : i \in DOMAIN tbl}) <= MaxUsers
    \/ Cardinality({tbl[i].email : i \in DOMAIN tbl}) <= MaxUsers

\* POST /auth/register
register_user(username, email, password, role, salt, smtp) ==
    LET base == [NoRequest EXCEPT !.op = "register", !.username = username,
                                  !.email = email, !.role = role]
        gate == RegisterGate(users, username, email)
    IN
    /\ Observe
    /\ UNCHANGED <<cache, now, ticks, confirmations>>
    /\ IF gate.status # 201
       THEN /\ last' = [base EXCEPT !.status = gate.status,
                                    !.detail = gate.detail]
            /\ UNCHANGED users
       ELSE /\ users' = create_user(users, username, email,
                            get_password_hash(password, salt), role)
            /\ WithinPopulation(users')
            /\ last' = [base EXCEPT !.status = 201,
                            !.mail = create_email_token(email, NoneV, now),
                            !.task = send_email(smtp)]

\* The identity snapshot both login and get_current_user serialize:
\* str(user.id), and the role as its string value.
str(id) == <<"1", "2", "3">>[id]

UserData(row) ==
    [id |-> str(row.id), username |-> row.username, email |-> row.email,
     confirmed |-> row.confirmed, role |-> row.role]

\* Mutant: the entry is stored under the snapshot's e-mail address.
RedisSet_UnderEmail(store, key, value, ttl, t) ==
    [store EXCEPT ![value.email] =
        [present |-> TRUE, value |-> value, expires_at |-> t + ttl]]

\* redis.set(key, value, ex=ttl): overwrites unconditionally.
RedisSet(store, key, value, ttl, t) ==
    [store EXCEPT ![key] =
        [present |-> TRUE, value |-> value, expires_at |-> t + ttl]]

\* Mutant: the confirmed flag is not looked at.
LoginGate_PasswordOnly(tbl, username, password) ==
    LET i == get_user_by_username(tbl, username) IN
    IF i = 0 \/ ~verify_password(password, tbl[i].hashed_password)
    THEN [status |-> 401, detail |-> "credentials"]
    ELSE [status |-> 200, detail |-> NoneV]

\* login_user, the credential and confirmation gate: the status it raises,
\* 200 when it lets the request through.
LoginGate(tbl, username, password) ==
    LET i == get_user_by_username(tbl, username) IN
    IF i # 0 /\ verify_password_raises(password, tbl[i].hashed_password)
    THEN [status |-> 500, detail |-> "UnknownHashError"]
    ELSE IF i = 0 \/ ~verify_password(password, tbl[i].hashed_password)
    THEN [status |-> 401, detail |-> "credentials"]
    ELSE IF ~tbl[i].confirmed
    THEN [status |-> 401, detail |-> "unconfirmed"]
    ELSE [status |-> 200, detail |-> NoneV]

\* Mutant: the new refresh token is never written to the row.
CommitRefreshToken_Dropped(tbl, i, loaded, refresh_token) == tbl

\* user.refresh_token = refresh_token; await db.commit(): the unit of work
\* writes the column when the value set differs from the value loaded.
CommitRefreshToken(tbl, i, loaded, refresh_token) ==
    IF refresh_token # loaded
    THEN [tbl EXCEPT ![i].refresh_token = refresh_token]
    ELSE tbl

\* login_user, the best-effort cache write: skipped when Redis fails.
LoginCache(store, row, up, t) ==
    IF up
    THEN RedisSet(store, row.username, UserData(row), CACHE_TTL, t)
    ELSE store

\* Mutant: a failure of the cache write is not caught.
LoginCacheOutcome_Raises(up) == IF up THEN 200 ELSE 500

\* login_user, try/except Exception around the cache write: a failure is
\* logged and the login goes on to its response.
LoginCacheOutcome(up) == 200

\* POST /auth/login, run without interleaving.
login_user(username, password, up) ==
    LET base == [NoRequest EXCEPT !.op = "login", !.username = username,
                                  !.password = password, !.up = up]
        gate == LoginGate(users, username, password)
        i == get_user_by_username(users, username)
        access_token == create_access_token(users[i].username, NoDelta, now)
        refresh_token == create_refresh_token(users[i].username, NoDelta, now)
        tbl == CommitRefreshToken(users, i, users[i].refresh_token,
                                  refresh_token)
    IN
    /\ Observe
    /\ UNCHANGED <<now, ticks, confirmations>>
    /\ IF gate.status # 200
       THEN /\ last' = [base EXCEPT !.status = gate.status,
                                    !.detail = gate.detail]
            /\ UNCHANGED <<users, cache, latest>>
       ELSE /\ users' = tbl
            /\ latest' = [latest EXCEPT ![username] = refresh_token]
            /\ cache' = LoginCache(cache, tbl[i], up, now)
            /\ last' = IF LoginCacheOutcome(up) = 200
                       THEN [base EXCEPT !.status = 200,
                                         !.access_token = access_token,
                                         !.refresh_token = refresh_token]
                       ELSE [base EXCEPT !.status = LoginCacheOutcome(up)]

\* Mutant: the row is looked up by username alone, not by the stored token.
verify_refresh_token_AnyIssued(tbl, refresh_token, t) ==
    LET d == jwt_decode(refresh_token, "JWT_REFRESH_SECRET", t) IN
    IF ~d.ok THEN [raised |-> TRUE, user |-> 0]
    ELSE IF d.payload.sub = NoneV \/ d.payload.token_type # "refresh"
    THEN [raised |-> FALSE, user |-> 0]
    ELSE [raised |-> FALSE,
          user |-> get_user_by_username(tbl, d.payload.sub)]

\* verify_refresh_token: raises 401 on a decode error; otherwise the row
\* whose username is the subject and whose stored token is the one presented
\* (0 for None).
verify_refresh_token(tbl, refresh_token, t) ==
    LET d == jwt_decode(refresh_token, "JWT_REFRESH_SECRET", t) IN
    IF ~d.ok THEN [raised |-> TRUE, user |-> 0]
    ELSE IF d.payload.sub = NoneV \/ d.payload.token_type # "refresh"
    THEN [raised |-> FALSE, user |-> 0]
    ELSE IF \E i \in DOMAIN tbl : /\ tbl[i].username = d.payload.sub
                                  /\ tbl[i].refresh_token = refresh_token
    THEN [raised |-> FALSE,
          user |-> CHOOSE i \in DOMAIN tbl :
                       /\ tbl[i].username = d.payload.sub
                       /\ tbl[i].refresh_token = refresh_token]
    ELSE [raised |-> FALSE, user |-> 0]

\* Mutant: the refresh token is rotated in the response.
RefreshResponse_Rotating(row, token, t) ==
    [access_token |-> create_access_token(row.username, NoDelta, t),
     refresh_token |-> create_refresh_token(row.username, NoDelta, t + 1)]

\* new_token, the body of the 200 response: a new access token and the
\* refresh token of the request.
RefreshResponse(row, token, t) ==
    [access_token |-> create_access_token(row.username, NoDelta, t),
     refresh_token |-> token]

\* POST /auth/refresh-token
new_token(token) ==
    LET base == [NoRequest EXCEPT !.op = "refresh", !.token = token]
        v == verify_refresh_token(users, token, now)
    IN
    /\ Observe
    /\ UNCHANGED <<users, cache, now, ticks, confirmations>>
    /\ IF v.raised
       THEN last' = [base EXCEPT !.status = 401, !.detail = "decode"]
       ELSE IF v.user = 0
       THEN last' = [base EXCEPT !.status = 401, !.detail = "no match"]
       ELSE last' = [base EXCEPT
                !.status = 200,
                !.access_token =
                    RefreshResponse(users[v.user], token, now).access_token,
                !.refresh_token =
                    RefreshResponse(users[v.user], token, now).refresh_token]

\* get_email_from_token: 422 on a decode error, else the sub claim.
get_email_from_token(token, t) ==
    LET d == jwt_decode(token, "JWT_SECRET", t) IN
    IF d.ok THEN [status |-> 200, email |-> d.payload.sub]
    ELSE [status |-> 422, email |-> NoneV]

\* Mutant: confirming also clears the stored refresh token and resets the
\* role.
repo_confirmed_email_ResetsRow(tbl, email) ==
    LET i == get_user_by_email(tbl, email) IN
    IF i # 0
    THEN [tbl EXCEPT ![i].confirmed = TRUE, ![i].refresh_token = NoToken,
                     ![i].role = "user"]
    ELSE tbl

\* UserRepository.confirmed_email
repo_confirmed_email(tbl, email) ==
    LET i == get_user_by_email(tbl, email) IN
    IF i # 0 THEN [tbl EXCEPT ![i].confirmed = TRUE] ELSE tbl

\* GET /auth/confirmed_email/{token}
confirmed_email(token) ==
    LET base == [NoRequest EXCEPT !.op = "confirm", !.token = token]
        g == get_email_from_token(token, now)
        i == get_user_by_email(users, g.email)
    IN
    /\ Observe
    /\ UNCHANGED <<cache, now, ticks>>
    /\ IF g.status # 200
       THEN /\ last' = [base EXCEPT !.status = g.status, !.detail = "decode"]
            /\ UNCHANGED <<users, confirmations>>
       ELSE IF g.email = NoneV
       THEN /\ last' = [base EXCEPT !.status = 400, !.detail = "no sub"]
            /\ UNCHANGED <<users, confirmations>>
       ELSE IF i = 0
       THEN /\ last' = [base EXCEPT !.status = 400, !.email = g.email,
                                    !.detail = "no user"]
            /\ UNCHANGED <<users, confirmations>>
       ELSE IF users[i].confirmed
       THEN /\ last' = [base EXCEPT !.status = 200, !.email = g.email,
                                    !.detail = "already"]
            /\ UNCHANGED <<users, confirmations>>
       ELSE /\ users' = repo_confirmed_email(users, g.email)
            /\ confirmations' = confirmations \cup {users[i].id}
            /\ last' = [base EXCEPT !.status = 200, !.email = g.email,
                                    !.detail = "confirmed"]

\* Mutant: the confirmation e-mail is sent again to a confirmed user.
request_email_ResendsToConfirmed(email, smtp) ==
    LET base == [NoRequest EXCEPT !.op = "request_email", !.email = email]
        i == get_user_by_email(users, email)
    IN
    /\ Observe
    /\ UNCHANGED <<users, cache, now, ticks, confirmations>>
    /\ IF i = 0
       THEN last' = [base EXCEPT !.status = 400, !.detail = "no user"]
       ELSE last' = [base EXCEPT !.status = 200, !.detail = "check",
                        !.mail = create_email_token(users[i].email, NoneV, now),
                        !.task = send_email(smtp)]

\* POST /auth/request_email
request_email(email, smtp) ==
    LET base == [NoRequest EXCEPT !.op = "request_email", !.email = email]
        i == get_user_by_email(users, email)
    IN
    /\ Observe
    /\ UNCHANGED <<users, cache, now, ticks, confirmations>>
    /\ IF i = 0
       THEN last' = [base EXCEPT !.status = 400, !.detail = "no user"]
       ELSE IF users[i].confirmed
       THEN last' = [base EXCEPT !.status = 200, !.detail = "already"]
       ELSE last' = [base EXCEPT !.status = 200, !.detail = "check",
                        !.mail = create_email_token(users[i].email, NoneV, now),
                        !.task = send_email(smtp)]

\* Mutant: an unregistered address is told that it is unknown.
request_password_reset_Reveals(email, smtp) ==
    LET base == [NoRequest EXCEPT !.op = "request_reset", !.email = email]
        i == get_user_by_email(users, email)
    IN
    /\ Observe
    /\ UNCHANGED <<users, cache, now, ticks, confirmations>>
    /\ IF i = 0
       THEN last' = [base EXCEPT !.status = 404, !.detail = "no user"]
       ELSE last' = [base EXCEPT !.status = 200, !.detail = "generic",
                        !.mail = create_email_token(users[i].email,
                                                    "password_reset", now),
                        !.task = send_password_reset_email(smtp)]

\* POST /auth/request-password-reset
request_password_reset(email, smtp) ==
    LET base == [NoRequest EXCEPT !.op = "request_reset", !.email = email]
        i == get_user_by_email(users, email)
    IN
    /\ Observe
    /\ UNCHANGED <<users, cache, now, ticks, confirmations>>
    /\ IF i = 0
       THEN last' = [base EXCEPT !.status = 200, !.detail = "generic"]
       ELSE last' = [base EXCEPT !.status = 200, !.detail = "generic",
                        !.mail = create_email_token(users[i].email,
                                                    "password_reset", now),
                        !.task = send_password_reset_email(smtp)]

\* Mutant: the scope claim is not looked at.
ResetGate_AnyScope(token, t) ==
    LET d == jwt_decode(token, "JWT_SECRET", t) IN
    IF ~d.ok THEN [status |-> 400, detail |-> "decode", email |-> NoneV]
    ELSE IF d.payload.sub = NoneV
    THEN [status |-> 400, detail |-> "invalid", email |-> NoneV]
    ELSE [status |-> 200, detail |-> NoneV, email |-> d.payload.sub]

\* reset_password, the token gate: the e-mail the token grants a reset for.
ResetGate(token, t) ==
    LET d == jwt_decode(token, "JWT_SECRET", t) IN
    IF ~d.ok THEN [status |-> 400, detail |-> "decode", email |-> NoneV]
    ELSE IF d.payload.sub = NoneV \/ d.payload.scope # "password_reset"
    THEN [status |-> 400, detail |-> "invalid", email |-> NoneV]
    ELSE [status |-> 200, detail |-> NoneV, email |-> d.payload.sub]

\* Mutant: a password reset revokes the stored refresh token.
SetPassword_RevokesSession(tbl, i, hashed_password) ==
    [tbl EXCEPT ![i].hashed_password = hashed_password,
                ![i].refresh_token = NoToken]

\* Mutant: a password reset sends the account back to unconfirmed.
SetPassword_Unconfirms(tbl, i, hashed_password) ==
    [tbl EXCEPT ![i].hashed_password = hashed_password,
                ![i].confirmed = FALSE]

\* reset_password: user.hashed_password = hashed_password; db.commit().
SetPassword(tbl, i, hashed_password) ==
    [tbl EXCEPT ![i].hashed_password = hashed_password]

\* Mutant: a reset token is honoured once.
reset_password_SingleUse(token, new_password, salt) ==
    LET base == [NoRequest EXCEPT !.op = "reset_password", !.token = token,
                                  !.password = new_password]
        g == ResetGate(token, now)
        i == get_user_by_email(users, g.email)
    IN
    /\ Observe
    /\ UNCHANGED <<cache, now, ticks, confirmations>>
    /\ IF g.status # 200 \/ token \in used
       THEN /\ last' = [base EXCEPT !.status = 400, !.detail = g.detail]
            /\ UNCHANGED users
       ELSE IF i = 0
       THEN /\ last' = [base EXCEPT !.status = 400, !.detail = "no user"]
            /\ UNCHANGED users
       ELSE /\ users' = SetPassword(users, i,
                            get_password_hash(new_password, salt))
            /\ last' = [base EXCEPT !.status = 200, !.email = g.email]

\* POST /auth/reset-password
reset_password(token, new_password, salt) ==
    LET base == [NoRequest EXCEPT !.op = "reset_password", !.token = token,
                                  !.password = new_password]
        g == ResetGate(token, now)
        i == get_user_by_email(users, g.email)
    IN
    /\ Observe
    /\ UNCHANGED <<cache, now, ticks, confirmations>>
    /\ IF g.status # 200
       THEN /\ last' = [base EXCEPT !.status = g.status, !.detail = g.detail]
            /\ UNCHANGED users
       ELSE IF i = 0
       THEN /\ last' = [base EXCEPT !.status = 400, !.detail = "no user"]
            /\ UNCHANGED users
       ELSE /\ users' = SetPassword(users, i,
                            get_password_hash(new_password, salt))
            /\ last' = [base EXCEPT !.status = 200, !.email = g.email]

\* UserRole(value): the enum member, a ValueError for any other string.
UserRole(value) ==
    IF value \in {"user", "admin"}
    THEN [kind |-> "UserRole", value |-> value]
    ELSE [kind |-> "ValueError", value |-> value]

\* The role a row carries is the column's plain string.
RoleStr(value) == [kind |-> "str", value |-> value]

Identity(data, role) ==
    [id |-> data.id, username |-> data.username, email |-> data.email,
     confirmed |-> data.confirmed, role |-> role]

\* Mutant: a miss returns the identity without populating the cache.
get_current_user_NoCacheWrite(tbl, store, token, up, t) ==
    LET d == jwt_decode(token, "JWT_SECRET", t)
        username == d.payload.sub
        fail(code, rd) == [status |-> code, identity |-> NoIdentity,
                           cache |-> store, read |-> rd]
        i == get_user_by_username(tbl, username)
    IN
    IF ~d.ok \/ username = NoneV THEN fail(401, FALSE)
    ELSE IF ~up THEN fail(500, FALSE)
    ELSE IF store[username].present
    THEN LET role == UserRole(store[username].value.role) IN
         IF role.kind = "ValueError" THEN fail(500, FALSE)
         ELSE [status |-> 200,
               identity |-> Identity(store[username].value, role),
               cache |-> store, read |-> FALSE]
    ELSE IF i = 0 THEN fail(401, TRUE)
    ELSE [status |-> 200,
          identity |-> Identity(UserData(tbl[i]), RoleStr(tbl[i].role)),
          cache |-> store, read |-> TRUE]

\* Mutant: the cache is consulted before the token is verified.
get_current_user_CacheFirst(tbl, store, token, up, t) ==
    LET d == jwt_decode(token, "JWT_SECRET", t)
        username == d.payload.sub
        fail(code, rd) == [status |-> code, identity |-> NoIdentity,
                           cache |-> store, read |-> rd]
        i == get_user_by_username(tbl, username)
    IN
    IF ~up THEN fail(500, FALSE)
    ELSE IF ~d.ok \/ username = NoneV THEN fail(401, FALSE)
    ELSE IF store[username].present
    THEN LET role == UserRole(store[username].value.role) IN
         IF role.kind = "ValueError" THEN fail(500, FALSE)
         ELSE [status |-> 200,
               identity |-> Identity(store[username].value, role),
               cache |-> store, read |-> FALSE]
    ELSE IF i = 0 THEN fail(401, TRUE)
    ELSE [status |-> 200,
          identity |-> Identity(UserData(tbl[i]), RoleStr(tbl[i].role)),
          cache |-> RedisSet(store, username, UserData(tbl[i]), CACHE_TTL, t),
          read |-> TRUE]

\* Mutant: a failing cache is treated as a miss and the user is read from
\* persistence.
get_current_user_FallsBack(tbl, store, token, up, t) ==
    LET d == jwt_decode(token, "JWT_SECRET", t)
        username == d.payload.sub
        fail(code, rd) == [status |-> code, identity |-> NoIdentity,
                           cache |-> store, read |-> rd]
        i == get_user_by_username(tbl, username)
    IN
    IF ~d.ok \/ username = NoneV THEN fail(401, FALSE)
    ELSE IF up /\ store[username].present
    THEN LET role == UserRole(store[username].value.role) IN
         IF role.kind = "ValueError" THEN fail(500, FALSE)
         ELSE [status |-> 200,
               identity |-> Identity(store[username].value, role),
               cache |-> store, read |-> FALSE]
    ELSE IF i = 0 THEN fail(401, TRUE)
    ELSE [status |-> 200,
          identity |-> Identity(UserData(tbl[i]), RoleStr(tbl[i].role)),
          cache |-> IF up
                    THEN RedisSet(store, username, UserData(tbl[i]),
                                  CACHE_TTL, t)
                    ELSE store,
          read |-> TRUE]

\* get_current_user: the status, the identity and the cache it leaves.
\* `up` is whether Redis answers.
get_current_user(tbl, store, token, up, t) ==
    LET d == jwt_decode(token, "JWT_SECRET", t)
        username == d.payload.sub
        fail(code) == [status |-> code, identity |-> NoIdentity,
                       cache |-> store, read |-> FALSE]
        i == get_user_by_username(tbl, username)
    IN
    IF ~d.ok \/ username = NoneV THEN fail(401)
    ELSE IF ~up THEN fail(500)
    ELSE IF store[username].present
    THEN LET role == UserRole(store[username].value.role) IN
         IF role.kind = "ValueError" THEN fail(500)
         ELSE [status |-> 200,
               identity |-> Identity(store[username].value, role),
               cache |-> store, read |-> FALSE]
    ELSE IF i = 0
    THEN [status |-> 401, identity |-> NoIdentity, cache |-> store,
          read |-> TRUE]
    ELSE [status |-> 200,
          identity |-> Identity(UserData(tbl[i]), RoleStr(tbl[i].role)),
          cache |-> RedisSet(store, username, UserData(tbl[i]), CACHE_TTL, t),
          read |-> TRUE]

\* require_admin: user.role != UserRole.admin is a 403.
require_admin(identity) ==
    IF identity.role # [kind |-> "UserRole", value |-> "admin"]
    THEN 403 ELSE 200

\* The get_current_user dependency of a protected route, on its own: the
\* identity it hands to the route, or the status it fails with.
current_user(token, up) ==
    LET base == [NoRequest EXCEPT !.op = "current_user", !.token = token,
                                  !.up = up]
        r == get_current_user(users, cache, token, up, now)
    IN
    /\ Observe
    /\ UNCHANGED <<users, now, ticks, confirmations>>
    /\ cache' = r.cache
    /\ last' = [base EXCEPT !.status = r.status, !.identity = r.identity,
                            !.read = r.read]

\* schemas.User, the response_model of GET /users/me: every field is
\* required.
SchemaUserFields == {"id", "username", "email", "avatar", "role"}

\* FastAPI validates what the handler returns against the response_model,
\* reading the fields as attributes (from_attributes): a missing attribute
\* or a role outside schemas.UserRole is a ResponseValidationError, which
\* the client sees as 500.
serialize_response(content) ==
    IF \E f \in SchemaUserFields : f \notin DOMAIN content THEN 500
    ELSE IF content.role.value \notin {"user", "admin"} THEN 500
    ELSE 200

\* GET /users/me: returns the object get_current_user resolved. (The rate
\* limit of 5 requests per minute is not reached by the requests modelled.)
me(token, up) ==
    LET base == [NoRequest EXCEPT !.op = "me", !.token = token, !.up = up]
        r == get_current_user(users, cache, token, up, now)
    IN
    /\ Observe
    /\ UNCHANGED <<users, now, ticks, confirmations>>
    /\ cache' = r.cache
    /\ IF r.status # 200
       THEN last' = [base EXCEPT !.status = r.status, !.read = r.read]
       ELSE IF serialize_response(r.identity) # 200
       THEN last' = [base EXCEPT !.status = serialize_response(r.identity),
                                 !.read = r.read]
       ELSE last' = [base EXCEPT !.status = 200, !.read = r.read,
                                 !.username = r.identity.username,
                                 !.identity = r.identity]

\* cloudinary_url for the public id "RestApp/"+username.
CloudinaryUrl(username) == <<"cloudinary", username>>

\* PATCH /users/avatar; `uploaded` is whether the Cloudinary upload succeeds.
update_avatar_user(token, up, uploaded) ==
    LET base == [NoRequest EXCEPT !.op = "avatar", !.token = token]
        r == get_current_user(users, cache, token, up, now)
        i == get_user_by_email(users, r.identity.email)
    IN
    /\ Observe
    /\ UNCHANGED <<now, ticks, confirmations>>
    /\ cache' = r.cache
    /\ IF r.status # 200
       THEN /\ last' = [base EXCEPT !.status = r.status]
            /\ UNCHANGED users
       ELSE IF require_admin(r.identity) # 200
       THEN /\ last' = [base EXCEPT !.status = 403,
                                    !.username = r.identity.username]
            /\ UNCHANGED users
       ELSE IF ~uploaded
       THEN /\ last' = [base EXCEPT !.status = 500,
                                    !.username = r.identity.username]
            /\ UNCHANGED users
       ELSE IF i = 0
       THEN /\ last' = [base EXCEPT !.status = 404,
                                    !.username = r.identity.username]
            /\ UNCHANGED users
       ELSE /\ users' = [users EXCEPT ![i].avatar =
                            CloudinaryUrl(r.identity.username)]
            /\ last' = [base EXCEPT !.status = 200,
                                    !.username = r.identity.username]

\* ------------------------------------------------------------ environment
\* The tokens a client may present at time t. Users are never deleted and
\* their names never change, so every token the issuers have produced names
\* the username or the e-mail of a row of the table and carries a clock
\* value up to t; login hands its tokens to confirmed users only. The
\* others are tokens no issuer produces: signed with a foreign key, naming
\* nobody, or with a claim missing or altered.
IssueTimes(t) == {s \in Times : s <= t}

IssuedShapes(tbl, t) ==
    UNION {
        { create_email_token(tbl[i].email, NoneV, s),
          create_email_token(tbl[i].email, "password_reset", s) }
        \cup (IF tbl[i].confirmed
              THEN { create_access_token(tbl[i].username, NoDelta, s),
                     create_refresh_token(tbl[i].username, NoDelta, s) }
              ELSE {})
        : i \in DOMAIN tbl, s \in IssueTimes(t)}

OddTokens(t) ==
    LET a == create_access_token("nobody", NoDelta, t)
        r == create_refresh_token("nobody", NoDelta, t)
        m == create_email_token("nobody@x.com", "password_reset", t)
    IN  { a, r, m,
          [a EXCEPT !.key = "foreign"],
          [a EXCEPT !.sub = NoneV],
          [r EXCEPT !.key = "foreign"],
          [r EXCEPT !.token_type = NoneV],
          [r EXCEPT !.sub = NoneV],
          [m EXCEPT !.scope = "other"],
          [m EXCEPT !.sub = NoneV] }

TokenInputs(tbl, t) == IssuedShapes(tbl, t) \cup OddTokens(t)

\* The wall clock moves; Redis drops the entries whose TTL has run out.
Tick(d) ==
    /\ ticks < MaxTicks
    /\ now' = now + d
    /\ ticks' = ticks + 1
    /\ cache' = [k \in Subjects |->
                    IF cache[k].present /\ cache[k].expires_at <= now + d
                    THEN NoEntry ELSE cache[k]]
    /\ UNCHANGED <<users, last, pre, confirmations>>

\* The response leaves the server.
Respond ==
    /\ ~Idle
    /\ last' = NoRequest
    /\ pre' = NoPre
    /\ UNCHANGED <<users, cache, now, ticks, confirmations, latest, lg,
                   commits, resolved, proc, contacts,
                   reg, used>>

\* One request is handled at a time; each request draws its inputs from the
\* request universe.
RegisterRequest ==
    /\ Idle
    /\ UNCHANGED <<latest, lg, commits, resolved, proc, contacts,
                   reg, used>>
    /\ \E u \in Usernames, e \in Emails, p \in Passwords, r \in RoleInputs,
          s \in Salts, smtp \in SmtpOutcomes :
              register_user(u, e, p, r, s, smtp)

LoginRequest ==
    /\ Idle
    /\ UNCHANGED <<lg, commits, resolved, proc, contacts,
                   reg, used>>
    /\ \E u \in Usernames, p \in Passwords, up \in BOOLEAN :
          login_user(u, p, up)

RefreshRequest ==
    /\ Idle
    /\ UNCHANGED <<latest, lg, commits, resolved, proc, contacts,
                   reg, used>>
    /\ \E tok \in TokenInputs(users, now) : new_token(tok)

ConfirmRequest ==
    /\ Idle
    /\ UNCHANGED <<latest, lg, commits, resolved, proc, contacts,
                   reg, used>>
    /\ \E tok \in TokenInputs(users, now) : confirmed_email(tok)

ResendRequest ==
    /\ Idle
    /\ UNCHANGED <<latest, lg, commits, resolved, proc, contacts,
                   reg, used>>
    /\ \E e \in Emails, smtp \in SmtpOutcomes : request_email(e, smtp)

ResetLinkRequest ==
    /\ Idle
    /\ UNCHANGED <<latest, lg, commits, resolved, proc, contacts,
                   reg, used>>
    /\ \E e \in Emails, smtp \in SmtpOutcomes :
          request_password_reset(e, smtp)

ResetRequest ==
    /\ Idle
    /\ UNCHANGED <<latest, lg, commits, resolved, proc, contacts,
                   reg, used>>
    /\ \E tok \in TokenInputs(users, now), p \in Passwords, s \in Salts :
          reset_password(tok, p, s)

AvatarRequest ==
    /\ Idle
    /\ UNCHANGED <<latest, lg, commits, resolved, proc, contacts,
                   reg, used>>
    /\ \E tok \in TokenInputs(users, now), up \in BOOLEAN,
          uploaded \in BOOLEAN : update_avatar_user(tok, up, uploaded)

MeRequest ==
    /\ Idle
    /\ UNCHANGED <<latest, lg, commits, resolved, proc, contacts,
                   reg, used>>
    /\ \E tok \in TokenInputs(users, now), up \in BOOLEAN : me(tok, up)

ResolveRequest ==
    /\ Idle
    /\ UNCHANGED <<latest, lg, commits, resolved, proc, contacts,
                   reg, used>>
    /\ \E tok \in TokenInputs(users, now), up \in BOOLEAN :
          current_user(tok, up)

ClockTick ==
    /\ Idle
    /\ UNCHANGED <<latest, lg, commits, resolved, proc, contacts,
                   reg, used>>
    /\ \E d \in Jumps : Tick(d)

Next ==
    \/ RegisterRequest
    \/ LoginRequest
    \/ RefreshRequest
    \/ ConfirmRequest
    \/ ResendRequest
    \/ ResetLinkRequest
    \/ ResetRequest
    \/ AvatarRequest
    \/ ResolveRequest
    \/ MeRequest
    \/ ClockTick
    \/ Respond

Spec == Init /\ [][Next]_vars

\* ------------------------------------------------- login, step by step
\* login_user suspends at each await: the SELECT, the COMMIT and the
\* refresh plus cache write.  Two clients run it concurrently, each in its
\* own database session.

\* The row a session holds, as a one-row table for the gate.
Loaded(c) == IF lg[c].user.id = 0 THEN <<>> ELSE <<lg[c].user>>

\* await user_service.get_user_by_username(...): the session loads the row.
LoginSelect ==
    /\ Idle
    /\ \E c \in Clients, u \in Usernames, p \in Passwords :
          LET i == get_user_by_username(users, u) IN
          /\ lg[c].pc = "idle"
          /\ lg' = [lg EXCEPT ![c] =
                       [NoLogin EXCEPT
                           !.pc = "selected", !.username = u,
                           !.password = p,
                           !.user = IF i = 0 THEN NoRow ELSE users[i]]]
    /\ UNCHANGED <<users, cache, now, ticks, last, pre, confirmations,
                   latest, commits, resolved, proc, contacts,
                   reg, used>>

\* The gate and the two tokens, on the row as loaded, up to the commit.
LoginIssue ==
    /\ Idle
    /\ \E c \in Clients :
          LET gate == LoginGate(Loaded(c), lg[c].username, lg[c].password)
              access_token ==
                  create_access_token(lg[c].user.username, NoDelta, now)
              refresh_token ==
                  create_refresh_token(lg[c].user.username, NoDelta, now)
          IN
          /\ lg[c].pc = "selected"
          /\ IF gate.status # 200
             THEN /\ lg' = [lg EXCEPT ![c].pc = "done",
                                      ![c].status = gate.status]
                  /\ UNCHANGED latest
             ELSE /\ lg' = [lg EXCEPT ![c].pc = "issued",
                                      ![c].access_token = access_token,
                                      ![c].refresh_token = refresh_token]
                  /\ latest' = [latest EXCEPT
                                   ![lg[c].username] = refresh_token]
    /\ UNCHANGED <<users, cache, now, ticks, last, pre, confirmations,
                   commits, resolved, proc, contacts,
                   reg, used>>

\* await db.commit(): the session flushes its change of the row.
LoginCommit ==
    /\ Idle
    /\ \E c \in Clients :
          /\ lg[c].pc = "issued"
          /\ users' = CommitRefreshToken(users, lg[c].user.id,
                                         lg[c].user.refresh_token,
                                         lg[c].refresh_token)
          /\ commits' = Append(commits,
                 [client |-> c,
                  overlapped |->
                      \A d \in Clients : /\ lg[d].pc = "issued"
                                         /\ lg[d].username = lg[c].username])
          /\ lg' = [lg EXCEPT ![c].pc = "committed"]
    /\ UNCHANGED <<cache, now, ticks, last, pre, confirmations, latest,
                   resolved, proc, contacts,
                   reg, used>>

\* await db.refresh(user), the cache write and the response.
LoginReturn ==
    /\ Idle
    /\ \E c \in Clients, up \in BOOLEAN :
          /\ lg[c].pc = "committed"
          /\ cache' = LoginCache(cache, users[lg[c].user.id], up, now)
          /\ lg' = [lg EXCEPT ![c].pc = "done",
                                 ![c].status = LoginCacheOutcome(up)]
    /\ UNCHANGED <<users, now, ticks, last, pre, confirmations, latest,
                   commits, resolved, proc, contacts,
                   reg, used>>

\* A login that has completed before the concurrent ones start.
SettledLogin ==
    /\ \A c \in Clients : lg[c].pc = "idle"
    /\ LoginRequest

NextRace ==
    \/ SettledLogin
    \/ LoginSelect
    \/ LoginIssue
    \/ LoginCommit
    \/ LoginReturn
    \/ RefreshRequest
    \/ ClockTick
    \/ Respond

\* The concurrent logins start once a user has registered and confirmed
\* the e-mail address.
InitRace ==
    /\ users = repo_confirmed_email(
                   create_user(<<>>, "alice", "alice@x.com",
                               get_password_hash("pw1", "salt1"), "user"),
                   "alice@x.com")
    /\ cache = [k \in Subjects |-> NoEntry]
    /\ now = 0
    /\ ticks = 0
    /\ last = NoRequest
    /\ pre = NoPre
    /\ confirmations = {1}
    /\ latest = [u \in Usernames |-> NoToken]
    /\ lg = [c \in Clients |-> NoLogin]
    /\ commits = <<>>
    /\ resolved = NoResolution
    /\ proc = NoProc
    /\ contacts = NoContacts
    /\ reg = NoRegs
    /\ used = {}

SpecRace == InitRace /\ [][NextRace]_vars

\* ------------------------------------------- resolutions, one after another
\* The response leaves the server; a resolution answered 200 is remembered.
RespondResolved ==
    /\ ~Idle
    /\ last' = NoRequest
    /\ pre' = NoPre
    /\ resolved' = IF last.op = "current_user" /\ last.status = 200
                   THEN [token |-> last.token, identity |-> last.identity,
                         read |-> last.read, at |-> now]
                   ELSE resolved
    /\ UNCHANGED <<users, cache, now, ticks, confirmations, latest, lg,
                   commits, proc, contacts,
                   reg, used>>

NextResolve ==
    \/ RegisterRequest
    \/ ConfirmRequest
    \/ LoginRequest
    \/ ResolveRequest
    \/ ClockTick
    \/ RespondResolved

SpecResolve == Init /\ [][NextResolve]_vars

\* ------------------------------------------------- the token issuers alone
\* The issuers and the decoder applied to drawn inputs: a subject, an
\* expires_delta (absent, 0, or a positive number) and the clock.
Deltas == {NoDelta, Delta(0), Delta(1), Delta(5), Delta(60)}

IssueAccess ==
    /\ Idle
    /\ \E s \in Subjects, d \in Deltas :
          last' = [NoRequest EXCEPT
                      !.op = "create_access_token", !.username = s,
                      !.expires_delta = d, !.issued_at = now,
                      !.access_token = create_access_token(s, d, now)]
    /\ UNCHANGED <<users, cache, now, ticks, pre, confirmations, latest, lg,
                   commits, resolved, proc, contacts,
                   reg, used>>

IssueRefresh ==
    /\ Idle
    /\ \E s \in Subjects, d \in Deltas :
          last' = [NoRequest EXCEPT
                      !.op = "create_refresh_token", !.username = s,
                      !.expires_delta = d, !.issued_at = now,
                      !.refresh_token = create_refresh_token(s, d, now)]
    /\ UNCHANGED <<users, cache, now, ticks, pre, confirmations, latest, lg,
                   commits, resolved, proc, contacts,
                   reg, used>>

IssueEmail ==
    /\ Idle
    /\ \E e \in Subjects, scope \in {NoneV, "password_reset"} :
          last' = [NoRequest EXCEPT
                      !.op = "create_email_token", !.email = e,
                      !.issued_at = now,
                      !.mail = create_email_token(e, scope, now)]
    /\ UNCHANGED <<users, cache, now, ticks, pre, confirmations, latest, lg,
                   commits, resolved, proc, contacts,
                   reg, used>>

\* The clock moves while the issued token is held.
TokenTick ==
    /\ last.op \in {"create_access_token", "create_refresh_token",
                    "create_email_token"}
    /\ last.status = 0
    /\ \E d \in Jumps : Tick(d)
    /\ UNCHANGED <<latest, lg, commits, resolved, proc, contacts,
                   reg, used>>

\* The held token is decoded with the secret of its kind; an email token
\* goes through get_email_from_token.
DecodeIssued ==
    /\ last.status = 0
    /\ \/ /\ last.op = "create_access_token"
          /\ LET d == jwt_decode(last.access_token, "JWT_SECRET", now) IN
             last' = [last EXCEPT !.status = IF d.ok THEN 200 ELSE 401,
                                  !.payload = d.payload]
       \/ /\ last.op = "create_refresh_token"
          /\ LET d == jwt_decode(last.refresh_token, "JWT_REFRESH_SECRET",
                                 now) IN
             last' = [last EXCEPT !.status = IF d.ok THEN 200 ELSE 401,
                                  !.payload = d.payload]
       \/ /\ last.op = "create_email_token"
          /\ LET r == get_email_from_token(last.mail, now) IN
             last' = [last EXCEPT !.status = r.status,
                                  !.returned = r.email]
    /\ UNCHANGED <<users, cache, now, ticks, pre, confirmations, latest, lg,
                   commits, resolved, proc, contacts,
                   reg, used>>

\* The result is dropped and the next input is drawn.
DropIssued ==
    /\ last.op \in {"create_access_token", "create_refresh_token",
                    "create_email_token"}
    /\ last.status # 0
    /\ last' = NoRequest
    /\ UNCHANGED <<users, cache, now, ticks, pre, confirmations, latest, lg,
                   commits, resolved, proc, contacts,
                   reg, used>>

NextTokens ==
    \/ IssueAccess
    \/ IssueRefresh
    \/ IssueEmail
    \/ TokenTick
    \/ DecodeIssued
    \/ DropIssued

SpecTokens == Init /\ [][NextTokens]_vars


\* ------------------------------------------------- the cache client global
\* Mutant: a client is made on every call.
get_redis_AlwaysConnects(p) ==
    [p EXCEPT !.redis = p.from_url + 1, !.from_url = p.from_url + 1]

\* get_redis: `if not redis: redis = Redis.from_url(...)`; `return redis`.
\* The body has no await, so on the event loop it runs from the test to the
\* return without another coroutine in between.
get_redis(p) ==
    IF p.redis = 0
    THEN [p EXCEPT !.redis = p.from_url + 1, !.from_url = p.from_url + 1]
    ELSE p

\* A request starts and is suspended at an await before it asks for the
\* client (login_user: await db.refresh(user)).
TaskEnter(t) ==
    /\ proc.task[t].pc = "idle"
    /\ proc.task[t].calls < MaxCalls
    /\ proc' = [proc EXCEPT !.task[t].pc = "awaiting"]

\* The request resumes, calls get_redis and is suspended again in the
\* command it sends with the client (await redis.get / redis.set).
TaskGetRedis(t) ==
    /\ proc.task[t].pc = "awaiting"
    /\ LET p == get_redis(proc) IN
       proc' = [p EXCEPT !.task[t].pc = "using",
                         !.task[t].client = p.redis,
                         !.task[t].calls = proc.task[t].calls + 1]

\* The command returns and the request ends; the task keeps the reference
\* it was given.
TaskFinish(t) ==
    /\ proc.task[t].pc = "using"
    /\ proc' = [proc EXCEPT !.task[t].pc = "idle"]

RequestEnters ==
    /\ \E t \in Tasks : TaskEnter(t)
    /\ UNCHANGED <<users, cache, now, ticks, last, pre, confirmations,
                   latest, lg, commits, resolved, contacts,
                   reg, used>>

RequestGetsRedis ==
    /\ \E t \in Tasks : TaskGetRedis(t)
    /\ UNCHANGED <<users, cache, now, ticks, last, pre, confirmations,
                   latest, lg, commits, resolved, contacts,
                   reg, used>>

RequestFinishes ==
    /\ \E t \in Tasks : TaskFinish(t)
    /\ UNCHANGED <<users, cache, now, ticks, last, pre, confirmations,
                   latest, lg, commits, resolved, contacts,
                   reg, used>>

NextRedis ==
    \/ RequestEnters
    \/ RequestGetsRedis
    \/ RequestFinishes

SpecRedis == Init /\ [][NextRedis]_vars

\* ---------------------------------------------------------- the hasher alone
\* Hash applied to drawn passwords, and verify_password applied to drawn
\* candidates against the hash just made or against a stored string that
\* get_password_hash did not make.
HashPasswords == {"pw1", "pw2", "", "A72", "A72x", "A72y"}
HashSalts == {"salt1", "salt2", "salt3"}

\* Stored strings that are not bcrypt hashes: the empty string, the
\* plaintext password, a hash of another scheme.
MalformedHashes ==
    { [scheme |-> "", salt |-> NoneV, digest |-> <<NoneV, "">>],
      [scheme |-> "plaintext", salt |-> NoneV, digest |-> <<NoneV, "pw1">>],
      [scheme |-> "md5_crypt", salt |-> "salt1", digest |-> <<"salt1", "pw1">>] }

\* The row of a confirmed user holding the given password hash.
RowWithHash(hashed_password) ==
    [NoRow EXCEPT !.id = 1, !.username = "alice", !.email = "alice@x.com",
                  !.confirmed = TRUE, !.role = "user",
                  !.hashed_password = hashed_password]

HashPassword ==
    /\ Idle
    /\ \E p \in HashPasswords, s \in HashSalts :
          last' = [NoRequest EXCEPT !.op = "get_password_hash",
                                    !.password = p,
                                    !.hashed = get_password_hash(p, s)]
    /\ UNCHANGED <<users, cache, now, ticks, pre, confirmations, latest, lg,
                   commits, resolved, proc, contacts,
                   reg, used>>

StoredHash ==
    /\ Idle
    /\ \E h \in MalformedHashes :
          last' = [NoRequest EXCEPT !.op = "stored_hash", !.hashed = h]
    /\ UNCHANGED <<users, cache, now, ticks, pre, confirmations, latest, lg,
                   commits, resolved, proc, contacts,
                   reg, used>>

\* verify_password on a candidate, and the login of the user whose row
\* holds the hash with that candidate.
VerifyPassword ==
    /\ last.op \in {"get_password_hash", "stored_hash"}
    /\ \E p \in HashPasswords :
          last' = [last EXCEPT
                      !.op = "verify_password",
                      !.plain = p,
                      !.raised = verify_password_raises(p, last.hashed),
                      !.verified = verify_password(p, last.hashed),
                      !.status = LoginGate(<<RowWithHash(last.hashed)>>,
                                           "alice", p).status]
    /\ UNCHANGED <<users, cache, now, ticks, pre, confirmations, latest, lg,
                   commits, resolved, proc, contacts,
                   reg, used>>

DropHash ==
    /\ last.op = "verify_password"
    /\ last' = NoRequest
    /\ UNCHANGED <<users, cache, now, ticks, pre, confirmations, latest, lg,
                   commits, resolved, proc, contacts,
                   reg, used>>

NextHash ==
    \/ HashPassword
    \/ StoredHash
    \/ VerifyPassword
    \/ DropHash

SpecHash == Init /\ [][NextHash]_vars

\* ------------------------------------------------------------ the contacts
\* Contact rows carry id, first_name, email, additional_data and user_id;
\* last_name, phone_number and birthday behave as first_name does.
MaxContacts == 3
ContactEmails == {"c1@x.com", "c2@x.com", "c3@x.com"}
ContactIds == 1..MaxContacts

\* ContactCreate: first_name and email required, additional_data optional.
ContactCreates ==
    [first_name : {"Ann"}, email : ContactEmails, additional_data : {NoneV}]

\* ContactUpdate: every field optional.
ContactUpdates ==
    [first_name : {"Ben", Unset},
     email : ContactEmails \cup {Unset, NoneV},
     additional_data : {"note", Unset}]

NoContact ==
    [id |-> 0, first_name |-> NoneV, email |-> NoneV,
     additional_data |-> NoneV, user_id |-> 0]

\* The identity carries its id as the string str(user.id); the Integer
\* column user_id is compared with, and assigned, the number it denotes
\* (the database converts the bound value).
IdValue(id) == CHOOSE i \in 1..3 : str(i) = id

\* scalar_one_or_none over the rows matching the filter.
OneOrNone(matching) ==
    IF matching = {} THEN NoContact ELSE CHOOSE c \in matching : TRUE

\* ContactRepository.get_contact_by_email
get_contact_by_email(rows, email, user) ==
    IF email \in {NoneV, Unset} THEN NoContact
    ELSE OneOrNone({c \in rows : c.email = email
                                 /\ c.user_id = IdValue(user.id)})

\* ContactRepository.get_contacts, with the default skip and limit, which
\* the table of the model never exceeds.
get_contacts(rows, user) == {c \in rows : c.user_id = IdValue(user.id)}

\* Mutant: the row is looked up by its id alone.
get_contact_by_id_AnyOwner(rows, contact_id, user) ==
    OneOrNone({c \in rows : c.id = contact_id})

\* ContactRepository.get_contact_by_id
get_contact_by_id(rows, contact_id, user) ==
    OneOrNone({c \in rows : c.id = contact_id
                            /\ c.user_id = IdValue(user.id)})

\* contacts.email is declared unique=True: the INSERT or UPDATE that would
\* give two rows the same email is refused by the database
\* (IntegrityError).
EmailTaken(rows, email, except_id) ==
    \E c \in rows : c.email = email /\ c.id # except_id

\* ContactRepository.create_contact: Contact(**body, user_id=user.id),
\* add, commit. ok is FALSE when the commit raises IntegrityError.
repo_create_contact(tbl, body, user) ==
    IF EmailTaken(tbl.rows, body.email, 0)
    THEN [ok |-> FALSE, tbl |-> tbl, row |-> NoContact]
    ELSE LET row == [id |-> tbl.next_id, first_name |-> body.first_name,
                     email |-> body.email,
                     additional_data |-> body.additional_data,
                     user_id |-> IdValue(user.id)]
         IN  [ok |-> TRUE,
              tbl |-> [rows |-> tbl.rows \cup {row},
                       next_id |-> tbl.next_id + 1],
              row |-> row]

\* Mutant: model_dump() without exclude_unset: a field the client left out
\* is assigned its default, None.
ApplyUpdate_AllFields(contact, body) ==
    [contact EXCEPT
        !.first_name = IF body.first_name = Unset THEN @ ELSE body.first_name,
        !.email = IF body.email = Unset THEN @ ELSE body.email,
        !.additional_data = IF body.additional_data = Unset THEN NoneV
                            ELSE body.additional_data]

\* setattr(contact, field, value) for every field of
\* model_dump(exclude_unset=True).
ApplyUpdate(contact, body) ==
    [contact EXCEPT
        !.first_name = IF body.first_name = Unset THEN @ ELSE body.first_name,
        !.email = IF body.email = Unset THEN @ ELSE body.email,
        !.additional_data = IF body.additional_data = Unset THEN @
                            ELSE body.additional_data]

\* ContactRepository.update_contact. The commit raises IntegrityError when
\* the email was set to null (the column is not nullable) or to the email
\* of another row.
repo_update_contact(tbl, contact_id, body, user) ==
    LET contact == get_contact_by_id(tbl.rows, contact_id, user)
        updated == ApplyUpdate(contact, body)
    IN
    IF contact.id = 0 THEN [ok |-> TRUE, tbl |-> tbl, row |-> NoContact]
    ELSE IF updated.email = NoneV
            \/ EmailTaken(tbl.rows, updated.email, contact_id)
    THEN [ok |-> FALSE, tbl |-> tbl, row |-> NoContact]
    ELSE [ok |-> TRUE,
          tbl |-> [tbl EXCEPT !.rows = (@ \ {contact}) \cup {updated}],
          row |-> updated]

\* ContactRepository.delete_contact
repo_delete_contact(tbl, contact_id, user) ==
    LET contact == get_contact_by_id(tbl.rows, contact_id, user) IN
    IF contact.id = 0 THEN tbl
    ELSE [tbl EXCEPT !.rows = @ \ {contact}]

\* ContactService: the status answered, the table afterwards and the rows
\* returned. An IntegrityError is handled nowhere and ends the request
\* with 500 after the session's rollback.
svc_get_contact_by_id(tbl, contact_id, user) ==
    LET contact == get_contact_by_id(tbl.rows, contact_id, user) IN
    IF contact.id = 0 THEN [status |-> 404, tbl |-> tbl, result |-> {}]
    ELSE [status |-> 200, tbl |-> tbl, result |-> {contact}]

svc_list_contacts(tbl, user) ==
    [status |-> 200, tbl |-> tbl, result |-> get_contacts(tbl.rows, user)]

svc_create_contact(tbl, body, user) ==
    LET existing == get_contact_by_email(tbl.rows, body.email, user)
        made == repo_create_contact(tbl, body, user)
    IN
    IF existing.id # 0 THEN [status |-> 400, tbl |-> tbl, result |-> {}]
    ELSE IF ~made.ok THEN [status |-> 500, tbl |-> tbl, result |-> {}]
    ELSE [status |-> 201, tbl |-> made.tbl, result |-> {made.row}]

svc_update_contact(tbl, contact_id, body, user) ==
    LET contact == get_contact_by_id(tbl.rows, contact_id, user)
        existing == get_contact_by_email(tbl.rows, body.email, user)
        done == repo_update_contact(tbl, contact_id, body, user)
    IN
    IF contact.id = 0 THEN [status |-> 404, tbl |-> tbl, result |-> {}]
    ELSE IF existing.id # 0 /\ existing.id # contact_id
    THEN [status |-> 400, tbl |-> tbl, result |-> {}]
    ELSE IF ~done.ok THEN [status |-> 500, tbl |-> tbl, result |-> {}]
    ELSE [status |-> 200, tbl |-> done.tbl, result |-> {done.row}]

svc_delete_contact(tbl, contact_id, user) ==
    LET contact == get_contact_by_id(tbl.rows, contact_id, user) IN
    IF contact.id = 0 THEN [status |-> 404, tbl |-> tbl, result |-> {}]
    ELSE [status |-> 204, tbl |-> repo_delete_contact(tbl, contact_id, user),
          result |-> {}]

\* The routes of /contacts: get_current_user resolves the caller, then the
\* service acts for that identity.
ContactRoute(op, token, contact_id, body) ==
    LET base == [NoRequest EXCEPT !.op = op, !.token = token,
                                  !.contact_id = contact_id, !.body = body]
        r == get_current_user(users, cache, token, TRUE, now)
        out == CASE op = "list_contacts" ->
                        svc_list_contacts(contacts, r.identity)
                 [] op = "get_contact" ->
                        svc_get_contact_by_id(contacts, contact_id, r.identity)
                 [] op = "create_contact" ->
                        svc_create_contact(contacts, body, r.identity)
                 [] op = "update_contact" ->
                        svc_update_contact(contacts, contact_id, body,
                                           r.identity)
                 [] op = "delete_contact" ->
                        svc_delete_contact(contacts, contact_id, r.identity)
    IN
    /\ Observe
    /\ UNCHANGED <<users, now, ticks, confirmations>>
    /\ cache' = r.cache
    /\ IF r.status # 200
       THEN /\ last' = [base EXCEPT !.status = r.status, !.read = r.read]
            /\ UNCHANGED contacts
       ELSE /\ last' = [base EXCEPT !.status = out.status, !.read = r.read,
                                    !.identity = r.identity,
                                    !.result = out.result]
            /\ contacts' = out.tbl

\* The tokens presented to /contacts: the access token of each user, and
\* one that does not verify.
ContactTokens ==
    {create_access_token(users[i].username, NoDelta, 0) : i \in DOMAIN users}
        \cup {[create_access_token("alice", NoDelta, 0)
                   EXCEPT !.key = "foreign"]}

list_contacts ==
    /\ Idle
    /\ UNCHANGED <<latest, lg, commits, resolved, proc, reg, used>>
    /\ \E tok \in ContactTokens : ContactRoute("list_contacts", tok, 0, NoBody)

get_contact ==
    /\ Idle
    /\ UNCHANGED <<latest, lg, commits, resolved, proc, reg, used>>
    /\ \E tok \in ContactTokens, id \in ContactIds :
          ContactRoute("get_contact", tok, id, NoBody)

create_contact ==
    /\ Idle
    /\ contacts.next_id <= MaxContacts
    /\ UNCHANGED <<latest, lg, commits, resolved, proc, reg, used>>
    /\ \E tok \in ContactTokens, body \in ContactCreates :
          ContactRoute("create_contact", tok, 0, body)

update_contact ==
    /\ Idle
    /\ UNCHANGED <<latest, lg, commits, resolved, proc, reg, used>>
    /\ \E tok \in ContactTokens, id \in ContactIds, body \in ContactUpdates :
          ContactRoute("update_contact", tok, id, body)

delete_contact ==
    /\ Idle
    /\ UNCHANGED <<latest, lg, commits, resolved, proc, reg, used>>
    /\ \E tok \in ContactTokens, id \in ContactIds :
          ContactRoute("delete_contact", tok, id, NoBody)

NextContacts ==
    \/ list_contacts
    \/ get_contact
    \/ create_contact
    \/ update_contact
    \/ delete_contact
    \/ Respond

\* Two registered, confirmed users and an empty contacts table.
InitContacts ==
    /\ users = repo_confirmed_email(
                   create_user(
                       repo_confirmed_email(
                           create_user(<<>>, "alice", "alice@x.com",
                                       get_password_hash("pw1", "salt1"),
                                       "user"),
                           "alice@x.com"),
                       "bob@x.com", "bob@x.com",
                       get_password_hash("pw2", "salt1"), "user"),
                   "bob@x.com")
    /\ cache = [k \in Subjects |-> NoEntry]
    /\ now = 0
    /\ ticks = 0
    /\ last = NoRequest
    /\ pre = NoPre
    /\ confirmations = {1, 2}
    /\ latest = [u \in Usernames |-> NoToken]
    /\ lg = [c \in Clients |-> NoLogin]
    /\ commits = <<>>
    /\ resolved = NoResolution
    /\ proc = NoProc
    /\ contacts = NoContacts
    /\ reg = NoRegs
    /\ used = {}

SpecContacts == InitContacts /\ [][NextContacts]_vars

\* ------------------------------------------------- two accounts, one string
\* UserCreate.username is an unconstrained str, so one account's username may
\* be the address another account registered with. Here the first account,
\* username "bob@x.com", registered and confirmed its address "alice@x.com";
\* the second, username "alice", registered with "bob@x.com" and has not yet
\* confirmed.
InitConfirm ==
    /\ users = create_user(
                   repo_confirmed_email(
                       create_user(<<>>, "bob@x.com", "alice@x.com",
                                   get_password_hash("pw1", "salt1"), "user"),
                       "alice@x.com"),
                   "alice", "bob@x.com",
                   get_password_hash("pw2", "salt1"), "user")
    /\ cache = [k \in Subjects |-> NoEntry]
    /\ now = 0
    /\ ticks = 0
    /\ last = NoRequest
    /\ pre = NoPre
    /\ confirmations = {1}
    /\ latest = [u \in Usernames |-> NoToken]
    /\ lg = [c \in Clients |-> NoLogin]
    /\ commits = <<>>
    /\ resolved = NoResolution
    /\ proc = NoProc
    /\ contacts = NoContacts
    /\ reg = NoRegs
    /\ used = {}

NextConfirm ==
    \/ LoginRequest
    \/ RefreshRequest
    \/ ConfirmRequest
    \/ ClockTick
    \/ Respond

SpecConfirm == InitConfirm /\ [][NextConfirm]_vars

\* --------------------------------------------- register, step by step
\* register_user suspends at each await: the SELECT by e-mail, the SELECT by
\* username and the INSERT's COMMIT. Each request has a session of its own
\* and another request may run between two of its steps.
RegBegin(c) ==
    /\ reg[c].pc = "idle"
    /\ \E u \in Usernames, e \in Emails :
          reg' = [reg EXCEPT ![c] = [NoReg EXCEPT !.pc = "email",
                                                  !.username = u,
                                                  !.email = e]]
    /\ UNCHANGED <<users, cache, now, ticks, last, pre, confirmations,
                   latest, lg, commits, resolved, proc, contacts, used>>

\* email_user = await user_service.get_user_by_email(...): 409 when found.
RegSelectEmail(c) ==
    /\ reg[c].pc = "email"
    /\ reg' = [reg EXCEPT ![c] =
                  IF get_user_by_email(users, reg[c].email) # 0
                  THEN [@ EXCEPT !.pc = "done", !.status = 409]
                  ELSE [@ EXCEPT !.pc = "username"]]
    /\ UNCHANGED <<users, cache, now, ticks, last, pre, confirmations,
                   latest, lg, commits, resolved, proc, contacts, used>>

\* username_user = await user_service.get_user_by_username(...)
RegSelectUsername(c) ==
    /\ reg[c].pc = "username"
    /\ reg' = [reg EXCEPT ![c] =
                  IF get_user_by_username(users, reg[c].username) # 0
                  THEN [@ EXCEPT !.pc = "done", !.status = 409]
                  ELSE [@ EXCEPT !.pc = "insert"]]
    /\ UNCHANGED <<users, cache, now, ticks, last, pre, confirmations,
                   latest, lg, commits, resolved, proc, contacts, used>>

\* users.username and users.email are unique=True: the INSERT of a row that
\* repeats either fails with IntegrityError.
UniqueViolation(tbl, username, email) ==
    \E i \in DOMAIN tbl : tbl[i].username = username \/ tbl[i].email = email

\* await self.db.commit() in UserRepository.create_user. The IntegrityError
\* has no handler: the session rolls back and the client is answered 500.
RegCommit(c) ==
    /\ reg[c].pc = "insert"
    /\ IF UniqueViolation(users, reg[c].username, reg[c].email)
       THEN /\ reg' = [reg EXCEPT ![c].pc = "done", ![c].status = 500]
            /\ UNCHANGED users
       ELSE /\ users' = create_user(users, reg[c].username, reg[c].email,
                            get_password_hash("pw1", "salt1"), NoneV)
            /\ reg' = [reg EXCEPT ![c].pc = "done", ![c].status = 201]
    /\ UNCHANGED <<cache, now, ticks, last, pre, confirmations, latest, lg,
                   commits, resolved, proc, contacts, used>>

\* The response has gone out and the client sends its next request.
RegReturn(c) ==
    /\ reg[c].pc = "done"
    /\ reg[c].status # 201
    /\ reg' = [reg EXCEPT ![c] = NoReg]
    /\ UNCHANGED <<users, cache, now, ticks, last, pre, confirmations,
                   latest, lg, commits, resolved, proc, contacts, used>>

NextRegister ==
    \E c \in Clients :
        \/ RegBegin(c)
        \/ RegSelectEmail(c)
        \/ RegSelectUsername(c)
        \/ RegCommit(c)
        \/ RegReturn(c)

SpecRegister == Init /\ [][NextRegister]_vars

\* ------------------------------------------------ reset tokens, presented
\* One confirmed user; reset-password is called with the tokens a client may
\* hold, and the tokens it has honoured are remembered.
ResetRequestRemembered ==
    /\ Idle
    /\ UNCHANGED <<latest, lg, commits, resolved, proc, contacts, reg>>
    /\ \E tok \in TokenInputs(users, now), p \in Passwords, s \in Salts :
          /\ reset_password(tok, p, s)
          /\ used' = IF last'.status = 200 THEN used \cup {tok} ELSE used

NextReset ==
    \/ ResetRequestRemembered
    \/ ClockTick
    \/ Respond

SpecReset == InitRace /\ [][NextReset]_vars

\* ------------------------------------------------------------------ claims
\* The row the request under observation found for a username, 0 when none.
PreUser(username) == get_user_by_username(pre.users, username)

\* C1: a login for a user whose confirmed flag is false is answered 401,
\* with the right password as with a wrong one; it returns no token and
\* leaves the users table (refresh_token included) and the session cache as
\* they were.
C1_UnconfirmedLoginUnauthorized ==
    ( /\ last.op = "login"
      /\ PreUser(last.username) # 0
      /\ ~pre.users[PreUser(last.username)].confirmed )
    => /\ last.status = 401
       /\ last.access_token = NoToken
       /\ last.refresh_token = NoToken
       /\ users = pre.users
       /\ cache = pre.cache

\* An unconfirmed user has presented the right password and got 401.
C1_Witness ==
    /\ last.op = "login"
    /\ PreUser(last.username) # 0
    /\ ~pre.users[PreUser(last.username)].confirmed
    /\ verify_password(last.password,
                       pre.users[PreUser(last.username)].hashed_password)
    /\ last.status = 401

\* C2: no login of a user succeeds before a confirmation request for that
\* user has succeeded; once the user is confirmed, a login with the
\* registered username and the right password is answered 200 with an access
\* token and a refresh token for that username.
C2_LoginOnlyAfterConfirmation ==
    /\ (last.op = "login" /\ last.status = 200)
       => \E i \in DOMAIN users : /\ users[i].username = last.username
                                  /\ users[i].id \in confirmations
    /\ ( /\ last.op = "login"
         /\ PreUser(last.username) # 0
         /\ pre.users[PreUser(last.username)].confirmed
         /\ verify_password(last.password,
                pre.users[PreUser(last.username)].hashed_password) )
       => /\ last.status = 200
          /\ last.access_token.key = "JWT_SECRET"
          /\ last.access_token.sub = last.username
          /\ last.refresh_token.key = "JWT_REFRESH_SECRET"
          /\ last.refresh_token.sub = last.username

\* A confirmed user has logged in and holds both tokens.
C2_Witness ==
    /\ last.op = "login"
    /\ last.status = 200
    /\ PreUser(last.username) # 0
    /\ pre.users[PreUser(last.username)].id \in confirmations
    /\ last.access_token # NoToken
    /\ last.refresh_token # NoToken

\* C3: when a login is answered 200, the refresh token of the response is
\* the value now stored in the user's refresh_token column, and, when Redis
\* answered, the cache entry under the username holds the identity snapshot
\* of that row and expires 3600 seconds later.
C3_LoginPersistsRefreshToken ==
    (last.op = "login" /\ last.status = 200)
    => \E i \in DOMAIN users :
          /\ users[i].username = last.username
          /\ last.refresh_token # NoToken
          /\ users[i].refresh_token = last.refresh_token
          /\ last.up =>
                cache[last.username] =
                    [present |-> TRUE,
                     value |-> [id |-> str(users[i].id),
                                username |-> users[i].username,
                                email |-> users[i].email,
                                confirmed |-> users[i].confirmed,
                                role |-> users[i].role],
                     expires_at |-> now + 3600]

\* A login has replaced an older stored refresh token and written the cache.
C3_Witness ==
    /\ last.op = "login"
    /\ last.status = 200
    /\ last.up
    /\ pre.users[PreUser(last.username)].refresh_token # NoToken
    /\ pre.users[PreUser(last.username)].refresh_token # last.refresh_token

\* The conditions under which a refresh token is to be accepted.
RefreshAcceptable(tbl, tok, t) ==
    /\ tok.key = "JWT_REFRESH_SECRET"
    /\ tok.exp >= t
    /\ tok.token_type = "refresh"
    /\ tok.sub # NoneV
    /\ \E i \in DOMAIN tbl : /\ tbl[i].username = tok.sub
                             /\ tbl[i].refresh_token = tok

\* C4: a refresh request is answered 200 exactly when its token is signed
\* with the refresh secret, unexpired, of token_type "refresh", names a user
\* in sub and equals that user's stored refresh_token; every other refresh
\* request is answered 401.
C4_RefreshIffStoredToken ==
    last.op = "refresh"
    => /\ last.status \in {200, 401}
       /\ last.status = 200 <=> RefreshAcceptable(pre.users, last.token, now)

\* A well-signed, unexpired refresh token of a user whose stored token is a
\* newer one has been refused.
C4_Witness ==
    /\ last.op = "refresh"
    /\ last.status = 401
    /\ last.token.key = "JWT_REFRESH_SECRET"
    /\ last.token.token_type = "refresh"
    /\ last.token.exp >= now
    /\ PreUser(last.token.sub) # 0
    /\ users[PreUser(last.token.sub)].refresh_token # NoToken
    /\ users[PreUser(last.token.sub)].refresh_token # last.token

\* A refresh token the refresh operation accepts in the current state.
Accepted(tok) ==
    LET v == verify_refresh_token(users, tok, now) IN
    ~v.raised /\ v.user # 0

\* The refresh tokens a client can present.
Presentable ==
    TokenInputs(users, now)
        \cup {lg[c].refresh_token : c \in Clients}
        \cup {users[i].refresh_token : i \in DOMAIN users}

AtMostOneAccepted ==
    \A u \in Subjects :
        Cardinality({t \in Presentable : t.sub = u /\ Accepted(t)}) <= 1

\* C5: whenever no login holds a refresh token it has issued and not yet
\* committed, a user's stored refresh_token, when present, equals the most
\* recently issued refresh token of that user, and at most one refresh token
\* per user is accepted by the refresh operation, overlapping logins
\* included.
C5_StoredIsMostRecentlyIssued ==
    (\A c \in Clients : lg[c].pc # "issued")
        => /\ \A i \in DOMAIN users :
                 users[i].refresh_token # NoToken
                     => users[i].refresh_token = latest[users[i].username]
           /\ AtMostOneAccepted

\* What login_user keeps instead: the stored refresh_token, when present, is
\* a refresh token issued for that user and never newer than the most
\* recently issued one; it is the most recently issued one as long as no
\* login has run step by step beside another; at most one refresh token per
\* user is accepted at any time.
StoredIsAnIssuedToken ==
    /\ \A i \in DOMAIN users :
          LET stored == users[i].refresh_token IN
          stored # NoToken
              => /\ stored.key = "JWT_REFRESH_SECRET"
                 /\ stored.token_type = "refresh"
                 /\ stored.sub = users[i].username
                 /\ stored.exp <= latest[users[i].username].exp
                 /\ (\A c \in Clients : lg[c].refresh_token = NoToken)
                        => stored = latest[users[i].username]
    /\ AtMostOneAccepted

\* Two overlapping logins have both returned, and the stored token is older
\* than the one issued last.
StoredIsOlderThanLatest ==
    /\ \A c \in Clients : lg[c].pc = "done" /\ lg[c].status = 200
    /\ \E i \in DOMAIN users :
          /\ users[i].refresh_token # NoToken
          /\ users[i].refresh_token # latest[users[i].username]
          /\ Accepted(users[i].refresh_token)

\* Two logins of one user, both past the gate with their tokens issued
\* before either committed, have both returned.
RaceOver ==
    /\ Len(commits) = 2
    /\ commits[1].overlapped
    /\ \A c \in Clients : lg[c].pc = "done"

FirstToken == lg[commits[1].client].refresh_token
SecondToken == lg[commits[2].client].refresh_token
RaceRow == users[lg[commits[2].client].user.id]

\* C6: after two concurrent logins of one confirmed user, each issuing its
\* refresh token before either commits, both have succeeded, the stored
\* refresh token is that of the login that committed last, and the refresh
\* token returned by the other login is rejected by the refresh operation.
C6_LastCommitStored ==
    RaceOver
        => /\ \A c \in Clients : lg[c].status = 200
           /\ RaceRow.refresh_token = SecondToken
           /\ ~Accepted(FirstToken)

\* What login_user does instead: the stored refresh token is that of the
\* login that committed last unless that token equals the value its session
\* had loaded, in which case the commit writes nothing and the first
\* committer's token stays; a returned token that differs from the stored
\* one is rejected by refresh.
LastWritingCommitStored ==
    RaceOver
        => /\ \A c \in Clients : lg[c].status = 200
           /\ RaceRow.refresh_token =
                 IF SecondToken # lg[commits[2].client].user.refresh_token
                 THEN SecondToken ELSE FirstToken
           /\ \A c \in Clients :
                 lg[c].refresh_token # RaceRow.refresh_token
                     => ~Accepted(lg[c].refresh_token)

\* The last committer's session had loaded the very token it issued: its
\* commit wrote nothing and the first committer's token is the stored one.
LastCommitWroteNothing ==
    /\ RaceOver
    /\ FirstToken # SecondToken
    /\ RaceRow.refresh_token = FirstToken
    /\ Accepted(FirstToken)
    /\ ~Accepted(SecondToken)

\* C7: a refresh answered 200 returns an access token issued now for the
\* token's subject together with the very refresh token presented, and
\* changes neither the users table nor the session cache.
C7_RefreshKeepsTokenAndState ==
    (last.op = "refresh" /\ last.status = 200)
    => /\ last.access_token =
              [NoToken EXCEPT !.key = "JWT_SECRET", !.sub = last.token.sub,
                              !.exp = now + 3600]
       /\ last.refresh_token = last.token
       /\ users = pre.users
       /\ cache = pre.cache

\* A refresh has succeeded for a user with a live cache entry, later than
\* the login that issued the token.
C7_Witness ==
    /\ last.op = "refresh"
    /\ last.status = 200
    /\ cache[last.token.sub].present
    /\ last.access_token.exp # last.token.exp - 604800 + 3600

\* C8: a newly registered user has confirmed = false, and no request
\* (register, login, refresh, confirm, resend, reset link, reset password,
\* avatar update) turns a confirmed flag from true back to false.
C8_ConfirmedMonotonic ==
    ~Idle
    => /\ \A i \in DOMAIN pre.users :
             pre.users[i].confirmed
             => (i \in DOMAIN users /\ users[i].confirmed)
       /\ \A i \in DOMAIN users :
             i \notin DOMAIN pre.users => ~users[i].confirmed

\* A confirmed user has reset the password and is still confirmed.
C8_Witness ==
    /\ last.op = "reset_password"
    /\ last.status = 200
    /\ \E i \in DOMAIN pre.users :
          /\ pre.users[i].confirmed
          /\ users[i].confirmed
          /\ users[i].hashed_password # pre.users[i].hashed_password

\* C9: a register request whose e-mail, or whose username, is already in
\* the table is answered 409; no row is added and no row is changed.
C9_RegisterConflict ==
    ( /\ last.op = "register"
      /\ \E i \in DOMAIN pre.users : \/ pre.users[i].email = last.email
                                     \/ pre.users[i].username = last.username )
    => /\ last.status = 409
       /\ users = pre.users

\* A taken username has been refused although the e-mail address was new.
C9_Witness ==
    /\ last.op = "register"
    /\ last.status = 409
    /\ \E i \in DOMAIN pre.users : pre.users[i].username = last.username
    /\ \A i \in DOMAIN pre.users : pre.users[i].email # last.email

\* C10: every row a register request creates has confirmed = false and the
\* role "user", whatever the request says.
C10_RegisterDefaultRole ==
    (last.op = "register" /\ last.status = 201)
    => /\ ~users[Len(users)].confirmed
       /\ users[Len(users)].role = "user"


\* ------------------------------------------------------ identity resolution
\* The request under observation is an identity resolution whose token
\* verifies under the access secret, is unexpired and carries a sub.
ResolvedValid ==
    /\ last.op = "current_user"
    /\ jwt_decode(last.token, "JWT_SECRET", now).ok
    /\ last.token.sub # NoneV

\* The entry the resolution found under "user:"+sub.
PreEntry == pre.cache[last.token.sub]

\* The identity carries the fields of a snapshot, whatever the type of role.
SameFields(identity, snapshot) ==
    /\ identity.id = snapshot.id
    /\ identity.username = snapshot.username
    /\ identity.email = snapshot.email
    /\ identity.confirmed = snapshot.confirmed
    /\ identity.role.value = snapshot.role

\* C11: a resolution of a valid access token that finds an unexpired cache
\* entry returns the identity of the cached snapshot without a persistence
\* read, even when the row has changed since; one that finds no entry
\* (expired, or never written) returns the identity of the persisted row.
C11_CacheHitAuthoritative ==
    (ResolvedValid /\ last.up)
        => /\ PreEntry.present
                => /\ last.status = 200
                   /\ SameFields(last.identity, PreEntry.value)
                   /\ ~last.read
           /\ (~PreEntry.present /\ PreUser(last.token.sub) # 0)
                => /\ last.status = 200
                   /\ SameFields(last.identity,
                          UserData(pre.users[PreUser(last.token.sub)]))

\* What get_current_user keeps: the same, for the snapshots whose role is a
\* member of UserRole.
CacheHitAuthoritativeForEnumRoles ==
    (ResolvedValid /\ last.up)
        => /\ (PreEntry.present /\ PreEntry.value.role \in {"user", "admin"})
                => /\ last.status = 200
                   /\ SameFields(last.identity, PreEntry.value)
                   /\ ~last.read
                   /\ cache = pre.cache
           /\ (~PreEntry.present /\ PreUser(last.token.sub) # 0)
                => /\ last.status = 200
                   /\ SameFields(last.identity,
                          UserData(pre.users[PreUser(last.token.sub)]))

\* A hit served the cached confirmed=false after the row was confirmed.
StaleSnapshotServed ==
    /\ ResolvedValid
    /\ last.status = 200
    /\ PreEntry.present
    /\ ~last.identity.confirmed
    /\ users[PreUser(last.token.sub)].confirmed

\* C12: a resolution of a valid token that finds no cache entry reads the
\* user by username once; if the row exists it returns the projection
\* {id, username, email, confirmed, role} and writes it under "user:"+username
\* with a 3600-second TTL; if not it fails with 401 and writes nothing.
C12_MissReadsAndPopulates ==
    (ResolvedValid /\ last.up /\ ~PreEntry.present)
        => /\ last.read
           /\ IF PreUser(last.token.sub) = 0
              THEN /\ last.status = 401
                   /\ cache = pre.cache
              ELSE LET row == pre.users[PreUser(last.token.sub)] IN
                   /\ last.status = 200
                   /\ last.identity =
                          Identity(UserData(row), RoleStr(row.role))
                   /\ cache = [pre.cache EXCEPT ![row.username] =
                                  [present |-> TRUE, value |-> UserData(row),
                                   expires_at |-> now + 3600]]

\* A miss has found the row and populated the cache.
C12_Witness ==
    /\ ResolvedValid
    /\ last.up
    /\ ~PreEntry.present
    /\ last.status = 200
    /\ last.read
    /\ cache[last.token.sub].present

\* C13: a resolution of a valid token within 3600 seconds of an earlier
\* resolution of the same token returns the identical identity (id,
\* username, email, confirmed and role in the same representation), and
\* the two together read persistence at most once.
C13_RepeatedResolutionIdentical ==
    (/\ ResolvedValid
     /\ last.up
     /\ resolved.token # NoToken
     /\ resolved.token = last.token
     /\ now < resolved.at + 3600)
        => /\ last.status = 200
           /\ last.identity = resolved.identity
           /\ ~(last.read /\ resolved.read)

\* C14: a resolution of a token whose signature does not verify under the
\* access secret, that is expired, or that carries no sub fails with 401,
\* whether or not Redis answers, reads no user and leaves the cache as it is.
C14_InvalidTokenUnauthorized ==
    (last.op = "current_user" /\ ~ResolvedValid)
        => /\ last.status = 401
           /\ last.identity = NoIdentity
           /\ ~last.read
           /\ cache = pre.cache
           /\ users = pre.users

\* An expired access token of an existing user was refused while Redis was
\* down.
C14_Witness ==
    /\ last.op = "current_user"
    /\ last.token.key = "JWT_SECRET"
    /\ last.token.exp < now
    /\ PreUser(last.token.sub) # 0
    /\ ~last.up
    /\ last.status = 401

\* C15: a login of a confirmed user with the right password while Redis is
\* down is answered 200 with the access and the refresh token, the refresh
\* token is stored on the row, and the cache is as it was.
C15_LoginSurvivesCacheFailure ==
    (/\ last.op = "login"
     /\ ~last.up
     /\ PreUser(last.username) # 0
     /\ pre.users[PreUser(last.username)].confirmed
     /\ verify_password(last.password,
            pre.users[PreUser(last.username)].hashed_password))
        => /\ last.status = 200
           /\ last.access_token =
                  [NoToken EXCEPT !.key = "JWT_SECRET",
                                  !.sub = last.username,
                                  !.exp = now + 3600]
           /\ last.refresh_token =
                  [NoToken EXCEPT !.key = "JWT_REFRESH_SECRET",
                                  !.sub = last.username,
                                  !.token_type = "refresh",
                                  !.exp = now + 604800]
           /\ users[PreUser(last.username)].refresh_token
                  = last.refresh_token
           /\ cache = pre.cache

\* A login went through with Redis down and replaced the stored token.
C15_Witness ==
    /\ last.op = "login"
    /\ ~last.up
    /\ last.status = 200
    /\ PreUser(last.username) # 0
    /\ pre.users[PreUser(last.username)].refresh_token # NoToken
    /\ pre.users[PreUser(last.username)].refresh_token # last.refresh_token
    /\ users[PreUser(last.username)].refresh_token = last.refresh_token

\* C16: a resolution of a valid token while Redis is down fails with the
\* error of the cache read (a 500), returns no identity and reads no user;
\* a resolution that merely finds no entry goes on to read the user.
C16_CacheFailureNotSwallowed ==
    /\ (ResolvedValid /\ ~last.up)
          => /\ last.status = 500
             /\ last.identity = NoIdentity
             /\ ~last.read
             /\ cache = pre.cache
    /\ (ResolvedValid /\ last.up /\ ~PreEntry.present)
          => /\ last.read
             /\ last.status \in {200, 401}

\* A valid token of an existing user met a failing cache.
C16_Witness ==
    /\ ResolvedValid
    /\ ~last.up
    /\ PreUser(last.token.sub) # 0
    /\ last.status = 500

\* ------------------------------------------------------------ confirmation
\* The confirmation request under observation presents a token that does
\* not verify under the access secret or is expired.
ConfirmTokenRejected ==
    /\ last.op = "confirm"
    /\ ~jwt_decode(last.token, "JWT_SECRET", now).ok

\* ... or a token that verifies but has no sub, or whose sub is the e-mail
\* address of no user.
ConfirmSubjectUnknown ==
    /\ last.op = "confirm"
    /\ jwt_decode(last.token, "JWT_SECRET", now).ok
    /\ \/ last.token.sub = NoneV
       \/ get_user_by_email(pre.users, last.token.sub) = 0

\* C17: confirm-email answers 400 whenever the token is invalid (bad
\* signature, expired, no sub) or its subject matches no user, and in every
\* such failure no user's confirmed flag changes.
C17_ConfirmFailsBadRequest ==
    (ConfirmTokenRejected \/ ConfirmSubjectUnknown)
        => /\ last.status = 400
           /\ Len(users) = Len(pre.users)
           /\ \A i \in DOMAIN users :
                 users[i].confirmed = pre.users[i].confirmed

\* What confirmed_email does: 422 for a token that does not decode, 400 for
\* a missing sub or an unknown subject, and the table is untouched.
ConfirmFailureStatuses ==
    /\ ConfirmTokenRejected => (last.status = 422 /\ users = pre.users)
    /\ ConfirmSubjectUnknown => (last.status = 400 /\ users = pre.users)

\* The confirmation request under observation presents a token that
\* verifies, is unexpired and whose sub is the e-mail address of a user.
ConfirmTokenGood ==
    /\ last.op = "confirm"
    /\ jwt_decode(last.token, "JWT_SECRET", now).ok
    /\ last.token.sub # NoneV
    /\ get_user_by_email(pre.users, last.token.sub) # 0

\* C18: confirm-email with a valid token of an existing user is answered
\* 200; on an unconfirmed row it sets confirmed and nothing else; on a
\* confirmed row (any later call with the same token) it changes nothing.
C18_ConfirmIdempotent ==
    ConfirmTokenGood
        => LET i == get_user_by_email(pre.users, last.token.sub) IN
           /\ last.status = 200
           /\ users = [pre.users EXCEPT ![i].confirmed = TRUE]
           /\ pre.users[i].confirmed => users = pre.users

\* A second confirmation of a user who has logged in since the first.
C18_Witness ==
    /\ ConfirmTokenGood
    /\ last.status = 200
    /\ pre.users[get_user_by_email(pre.users, last.token.sub)].confirmed
    /\ users[get_user_by_email(users, last.token.sub)].refresh_token
           # NoToken
    /\ users = pre.users

C20_ResetLinkUniform ==
    last.op = "request_reset"
        => LET i == get_user_by_email(pre.users, last.email) IN
           /\ last.status = 200
           /\ last.detail = "generic"
           /\ users = pre.users
           /\ (last.mail # NoToken) <=> (i # 0)
           /\ i # 0 => /\ last.mail.key = "JWT_SECRET"
                       /\ last.mail.sub = last.email
                       /\ last.mail.scope = "password_reset"

\* A reset link went out to a registered address.
C20_Witness ==
    /\ last.op = "request_reset"
    /\ last.status = 200
    /\ get_user_by_email(pre.users, last.email) # 0
    /\ last.mail.scope = "password_reset"

\* ------------------------------------------------------------------- C21
\* The token of the answered reset-password request is one the operation
\* may act on: signed with the access secret, unexpired, with a subject,
\* scope "password_reset", and the subject is the email of a stored user.
ResetTokenGood ==
    /\ last.token.key = "JWT_SECRET"
    /\ last.token.exp >= now
    /\ last.token.sub # NoneV
    /\ last.token.scope = "password_reset"
    /\ get_user_by_email(pre.users, last.token.sub) # 0

HashesUnchanged ==
    /\ Len(users) = Len(pre.users)
    /\ \A i \in DOMAIN users :
          users[i].hashed_password = pre.users[i].hashed_password

\* C21: reset-password overwrites a password hash only for a good reset
\* token; with any other token (scope absent or different, bad signature,
\* expired, no subject, unknown subject) it answers 400 and every password
\* hash is as it was.
C21_ResetOnlyWithResetToken ==
    last.op = "reset_password"
        => /\ ~HashesUnchanged => ResetTokenGood
           /\ ~ResetTokenGood => last.status = 400 /\ users = pre.users
           /\ ResetTokenGood => last.status = 200

\* An unexpired, validly signed email-confirmation token of a stored user
\* was presented to reset-password and rejected.
C21_Witness ==
    /\ last.op = "reset_password"
    /\ last.status = 400
    /\ last.token.key = "JWT_SECRET"
    /\ last.token.exp >= now
    /\ last.token.scope # "password_reset"
    /\ get_user_by_email(pre.users, last.token.sub) # 0
    /\ users = pre.users

\* ------------------------------------------------------------------- C22
\* The row a successful reset-password wrote to.
ResetRow == get_user_by_email(pre.users, last.email)

\* Every token the environment can present is treated after the reset as it
\* would have been before it, by refresh and by identity resolution.
TokensTreatedAlike ==
    \A tok \in TokenInputs(pre.users, now) :
        /\ verify_refresh_token(users, tok, now)
               = verify_refresh_token(pre.users, tok, now)
        /\ LET after  == get_current_user(users, cache, tok, TRUE, now)
               before == get_current_user(pre.users, pre.cache, tok, TRUE, now)
           IN  /\ after.status = before.status
               /\ after.identity = before.identity

\* C22: a successful reset-password changes only the password hash of the
\* user: refresh_token, confirmed, role and the session cache are as before,
\* so every issued access or refresh token is accepted exactly as before;
\* the new password verifies against the stored hash and no other password
\* does, so a login of the (confirmed) user passes the gate with the new
\* password and is refused with any other.
C22_ResetChangesOnlyHash ==
    (last.op = "reset_password" /\ last.status = 200)
        => /\ ResetRow # 0
           /\ users = [pre.users EXCEPT ![ResetRow].hashed_password =
                                            users[ResetRow].hashed_password]
           /\ cache = pre.cache
           /\ TokensTreatedAlike
           /\ verify_password(last.password, users[ResetRow].hashed_password)
           /\ users[ResetRow].confirmed
                 => LoginGate(users, users[ResetRow].username,
                              last.password).status = 200
           /\ \A p \in Passwords \ {last.password} :
                 LoginGate(users, users[ResetRow].username, p).status = 401

\* A logged-in user, with a stored refresh token and a cached snapshot,
\* reset the password to a different one.
C22_Witness ==
    /\ last.op = "reset_password"
    /\ last.status = 200
    /\ ResetRow # 0
    /\ pre.users[ResetRow].refresh_token # NoToken
    /\ pre.cache[pre.users[ResetRow].username].present
    /\ ~verify_password(last.password, pre.users[ResetRow].hashed_password)
    /\ verify_refresh_token(users, users[ResetRow].refresh_token, now).user
           = ResetRow

\* ------------------------------------------------------------------- C23
\* The operations that verify against the access secret.
AccessSecretOps == {"current_user", "avatar", "confirm", "reset_password"}

\* C23: token kinds are separated by secret. A token signed with the access
\* secret (an access token or an email-action token) presented to refresh
\* fails and no access token is issued; a token signed with the refresh
\* secret presented to identity resolution, confirm-email or reset-password
\* fails; in both cases nothing is written.
C23_KindsSeparatedBySecret ==
    /\ (last.op = "refresh" /\ last.token.key = "JWT_SECRET")
          => /\ last.status = 401
             /\ last.access_token = NoToken
             /\ users = pre.users /\ cache = pre.cache
    /\ (last.op \in AccessSecretOps /\ last.token.key = "JWT_REFRESH_SECRET")
          => /\ last.status \in {400, 401, 422}
             /\ last.identity = NoIdentity
             /\ users = pre.users /\ cache = pre.cache

\* The unexpired refresh token stored for a user, which refresh would
\* accept, was presented to an operation of the access secret and refused.
C23_Witness ==
    /\ last.op \in AccessSecretOps
    /\ last.token.key = "JWT_REFRESH_SECRET"
    /\ verify_refresh_token(pre.users, last.token, now).user # 0
    /\ last.status \in {400, 401, 422}

\* ------------------------------------------------------------------- C24
\* The token of the answered request is an unexpired access token, as login
\* issues them, whose subject is the username of a stored user, and the
\* cache answered.
MeTokenGood ==
    /\ \E s \in Times :
          last.token = create_access_token(last.token.sub, NoDelta, s)
    /\ last.token.exp >= now
    /\ get_user_by_username(pre.users, last.token.sub) # 0
    /\ last.up

\* C24: GET /me with a valid access token of an existing user answers 200
\* with a user record whose username is the token's subject, whether the
\* identity came from the cache or from the users table.
C24_MeReturnsUser ==
    (last.op = "me" /\ MeTokenGood)
        => /\ last.status = 200
           /\ last.username = last.token.sub

\* ------------------------------------------------------------------- C25
\* C25: issue/verify round trip. Decoding an issued, unexpired access token
\* with the access secret succeeds and yields the subject it was issued for
\* and an exp claim; decoding a refresh token with the refresh secret
\* yields the subject and token_type "refresh"; get_email_from_token of an
\* email token returns the address it was created for.
C25_TokenRoundTrip ==
    /\ (/\ last.op = "create_access_token" /\ last.status # 0
        /\ last.access_token.exp >= now)
          => /\ last.status = 200
             /\ last.payload.sub = last.username
             /\ last.payload.exp # NoToken.exp
    /\ (/\ last.op = "create_refresh_token" /\ last.status # 0
        /\ last.refresh_token.exp >= now)
          => /\ last.status = 200
             /\ last.payload.sub = last.username
             /\ last.payload.token_type = "refresh"
    /\ (/\ last.op = "create_email_token" /\ last.status # 0
        /\ last.mail.exp >= now)
          => /\ last.status = 200
             /\ last.returned = last.email

\* An access token was decoded, still unexpired, some time after its issue.
C25_Witness ==
    /\ last.op = "create_access_token"
    /\ last.status = 200
    /\ now > last.issued_at
    /\ last.payload.sub = last.username
    /\ last.username = "alice"

\* ------------------------------------------------------------------- C26
\* C26: whenever an expires_delta is supplied, 0 included, the access token
\* expires at most that many seconds, and the refresh token at most that
\* many minutes, after its issue; the default lifetime is used only when
\* none is supplied.
C26_ExplicitLifetimeHonoured ==
    /\ (last.op = "create_access_token" /\ last.expires_delta.given)
          => last.access_token.exp <= last.issued_at + last.expires_delta.v
    /\ (last.op = "create_refresh_token" /\ last.expires_delta.given)
          => last.refresh_token.exp
                 <= last.issued_at + last.expires_delta.v * 60
    /\ (last.op = "create_access_token" /\ ~last.expires_delta.given)
          => last.access_token.exp
                 = last.issued_at + JWT_EXPIRATION_SECONDS
    /\ (last.op = "create_refresh_token" /\ ~last.expires_delta.given)
          => last.refresh_token.exp
                 = last.issued_at + JWT_REFRESH_EXPIRATION_MINUTES * 60

\* What holds of the code: a positive expires_delta is honoured, and an
\* expires_delta of 0 is treated like an absent one.
PositiveLifetimeHonoured ==
    /\ (last.op = "create_access_token" /\ last.expires_delta.given)
          => last.access_token.exp =
                 IF last.expires_delta.v > 0
                 THEN last.issued_at + last.expires_delta.v
                 ELSE last.issued_at + JWT_EXPIRATION_SECONDS
    /\ (last.op = "create_refresh_token" /\ last.expires_delta.given)
          => last.refresh_token.exp =
                 IF last.expires_delta.v > 0
                 THEN last.issued_at + last.expires_delta.v * 60
                 ELSE last.issued_at + JWT_REFRESH_EXPIRATION_MINUTES * 60

\* ------------------------------------------------------------------- C27
\* C27: the cache client is made at most once in the process. However the
\* requests interleave, Redis.from_url has been called exactly once as soon
\* as get_redis has been called at all, and every call has returned that
\* one client.
C27_RedisClientMadeOnce ==
    /\ proc.from_url <= 1
    /\ (\E t \in Tasks : proc.task[t].calls > 0) => proc.from_url = 1
    /\ \A t \in Tasks :
          proc.task[t].calls > 0
              => /\ proc.task[t].client = proc.redis
                 /\ proc.task[t].client = 1

\* Two requests are in flight at once, both holding the client, and a third
\* has been through get_redis twice.
C27_Witness ==
    /\ proc.task[1].pc = "using"
    /\ proc.task[2].pc = "using"
    /\ proc.task[3].calls = 2
    /\ proc.task[1].client = proc.task[2].client
    /\ proc.from_url = 1

\* ------------------------------------------------------------------- C28
\* The request that queued the mail task succeeded and kept what it wrote.
MailRequestSucceeded ==
    /\ last.op = "register"
          => /\ last.status = 201
             /\ get_user_by_email(users, last.email) # 0
             /\ get_user_by_username(users, last.username) # 0
    /\ last.op \in {"request_email", "request_reset"}
          => /\ last.status = 200
             /\ users = pre.users

HashWasMade == last.hashed.scheme = "bcrypt"

\* C29: for all passwords p1 and p2, verify_password(p1,
\* get_password_hash(p2)) is true exactly when p1 = p2. (That the hash is
\* not the password itself is the scheme tag every hash carries.)
C29_VerifyExactlyOwnPassword ==
    (last.op = "verify_password" /\ HashWasMade)
        => /\ ~last.raised
           /\ last.verified <=> (last.plain = last.password)

\* What holds of the code: the comparison is one of the first 72 bytes.
VerifyComparesFirst72Bytes ==
    (last.op = "verify_password" /\ HashWasMade)
        => /\ ~last.raised
           /\ last.verified
                 <=> (Truncate72(last.plain) = Truncate72(last.password))
           /\ (last.plain \notin LongPasswords
               /\ last.password \notin LongPasswords)
                 => (last.verified <=> (last.plain = last.password))

\* ------------------------------------------------------------------- C30
\* C30: verify_password never raises. Against a stored string that
\* get_password_hash did not make it returns False, and the login of that
\* user is answered 401.
C30_VerifyNeverRaises ==
    (last.op = "verify_password" /\ ~HashWasMade)
        => /\ ~last.raised
           /\ ~last.verified
           /\ last.status = 401

\* What holds of the code: against a hash made by get_password_hash
\* verify_password does not raise, and the login of a confirmed user is
\* answered 401 exactly when it returns False.
VerifyOfMadeHashNeverRaises ==
    (last.op = "verify_password" /\ HashWasMade)
        => /\ ~last.raised
           /\ last.status = IF last.verified THEN 200 ELSE 401

\* ------------------------------------------------------------------- C31
\* The user the answered contact request was resolved to.
Caller == IdValue(last.identity.id)
Resolved == last.identity # NoIdentity

\* The request addressed a contact that exists and belongs to someone else.
AddressedForeignContact ==
    /\ last.op \in {"get_contact", "update_contact", "delete_contact"}
    /\ Resolved
    /\ \E c \in pre.contacts.rows :
          c.id = last.contact_id /\ c.user_id # Caller

\* C31: contact ownership isolation. Get, update and delete of a contact
\* of another user answer 404 and leave the table as it was; the list
\* returned is the caller's contacts and nothing else; a created contact is
\* owned by the caller.
C31_ContactOwnershipIsolation ==
    /\ AddressedForeignContact
          => /\ last.status = 404
             /\ last.result = {}
             /\ contacts = pre.contacts
    /\ (last.op = "list_contacts" /\ Resolved)
          => /\ last.status = 200
             /\ \A c \in last.result : c.user_id = Caller
             /\ last.result = {c \in pre.contacts.rows : c.user_id = Caller}
    /\ (last.op = "create_contact" /\ last.status = 201)
          => /\ Cardinality(contacts.rows \ pre.contacts.rows) = 1
             /\ \A c \in contacts.rows \ pre.contacts.rows :
                   c.user_id = Caller
             /\ pre.contacts.rows \subseteq contacts.rows

\* A user tried to delete a contact of another user and was answered 404.
C31_Witness ==
    /\ AddressedForeignContact
    /\ last.op = "delete_contact"
    /\ last.status = 404
    /\ contacts = pre.contacts

\* ------------------------------------------------------------------- C32
\* A token as create_access_token makes it: signed with JWT_SECRET, with sub
\* and exp and no other claim.
AccessShaped(tok) ==
    /\ tok.key = "JWT_SECRET"
    /\ tok.iat = -1
    /\ tok.scope = NoneV
    /\ tok.token_type = NoneV

\* The token was handed out by a login of a user of the table: it names the
\* user and was issued in the second the user's stored refresh token was.
IssuedAtLogin(tbl, tok) ==
    /\ AccessShaped(tok)
    /\ \E i \in DOMAIN tbl, s \in Times :
          /\ tbl[i].refresh_token = create_refresh_token(tbl[i].username,
                                                         NoDelta, s)
          /\ tok = create_access_token(tbl[i].username, NoDelta, s)

\* The rows whose confirmed flag the answered request turned on.
NewlyConfirmed ==
    {i \in DOMAIN users :
        /\ users[i].confirmed
        /\ i \in DOMAIN pre.users
        /\ ~pre.users[i].confirmed}

\* C32: the confirmed flag of a user turns true only in a confirm-email
\* call whose token was issued by create_email_token for that user's
\* address, and no access token handed out at login confirms anybody.
C32_ConfirmOnlyByEmailToken ==
    /\ \A i \in NewlyConfirmed :
          /\ last.op = "confirm"
          /\ \E s \in Times, sc \in {NoneV, "password_reset"} :
                last.token = create_email_token(users[i].email, sc, s)
    /\ (last.op = "confirm" /\ IssuedAtLogin(pre.users, last.token))
          => NewlyConfirmed = {}

\* The second account is confirmed by the access token the first account
\* was handed at its login.
ConfirmedByLoginToken ==
    /\ last.op = "confirm"
    /\ IssuedAtLogin(pre.users, last.token)
    /\ NewlyConfirmed # {}

\* ------------------------------------------------------------------- C33
\* C33: every identity get_current_user returns belongs to a user whose
\* confirmed flag is true, and no cache entry holds a snapshot of an
\* unconfirmed user.
C33_IdentityOnlyForConfirmed ==
    /\ last.identity # NoIdentity
          => /\ last.identity.confirmed
             /\ LET i == get_user_by_username(users, last.identity.username)
                IN  i # 0 /\ users[i].confirmed
    /\ \A k \in Subjects : cache[k].present => cache[k].value.confirmed

\* ------------------------------------------------------------------- C34
\* A confirmed user called the avatar update with an access token of theirs
\* and get_current_user resolved them, from the cache or from the table.
AvatarCallerResolved ==
    /\ last.op = "avatar"
    /\ last.username # NoneV
    /\ PreUser(last.username) # 0
    /\ pre.users[PreUser(last.username)].confirmed
    /\ \E s \in Times :
          last.token = create_access_token(last.username, NoDelta, s)

\* C34: require_admin decides alike on the cache-hit and the cache-miss
\* path: once the caller of the avatar update is resolved, the request is
\* answered 403 exactly when the user's role is not admin.
C34_AdminGateSameOnBothPaths ==
    AvatarCallerResolved
        => ((last.status = 403)
               <=> (pre.users[PreUser(last.username)].role # "admin"))

\* What the code keeps: an admin served from the cache is admitted.
AdminAdmittedOnHit ==
    /\ AvatarCallerResolved
    /\ pre.cache[last.username].present
    /\ pre.users[PreUser(last.username)].role = "admin"
    /\ last.status = 200

\* ------------------------------------------------------------------- C35
\* Both registrations have been answered and they share a username or an
\* e-mail address.
RegistersCollided ==
    /\ \A c \in Clients : reg[c].pc = "done"
    /\ \/ reg[1].username = reg[2].username
       \/ reg[1].email = reg[2].email

\* No two rows of the users table share a username or an e-mail address.
UsersUnique ==
    \A i, j \in DOMAIN users :
        i # j => /\ users[i].username # users[j].username
                 /\ users[i].email # users[j].email

\* C35: of two concurrent registrations that share a username or an e-mail
\* address exactly one creates a user and the other is answered 409, and no
\* two persisted users ever share a username or an e-mail address.
C35_ConcurrentRegisterConflict ==
    /\ UsersUnique
    /\ RegistersCollided
          => \E c \in Clients :
                /\ reg[c].status = 201
                /\ reg[3 - c].status = 409

\* What the code keeps: exactly one of the two creates a user, and the
\* other is answered 409 or, when its checks ran before the first commit,
\* 500.
OneCreatesOtherFails ==
    RegistersCollided
        => \E c \in Clients :
              /\ reg[c].status = 201
              /\ reg[3 - c].status \in {409, 500}

\* The second registration passed both checks and failed at its commit.
LostRegisterAnswered500 ==
    /\ RegistersCollided
    /\ \E c \in Clients : reg[c].status = 201 /\ reg[3 - c].status = 500

\* ------------------------------------------------------------------- C36
\* The keys whose entry the answered request wrote.
WrittenKeys ==
    {k \in Subjects : cache[k].present /\ cache[k] # pre.cache[k]}

\* The answered request went through get_current_user, found no entry for
\* the token's subject and found the subject's row.
MissResolved ==
    /\ last.op \in {"current_user", "me", "avatar"}
    /\ jwt_decode(last.token, "JWT_SECRET", now).ok
    /\ last.token.sub # NoneV
    /\ ~pre.cache[last.token.sub].present
    /\ PreUser(last.token.sub) # 0

\* C36: the entry under key "user:"+u is a snapshot of the persisted user
\* named u (same username, id and e-mail address), and entries are written
\* by a login answered 200 or by a resolution that missed the cache and
\* found the user, one entry under the user's own key, and by nothing else.
C36_CacheEntriesConsistent ==
    /\ \A u \in Subjects :
          cache[u].present
             => LET i == get_user_by_username(users, u) IN
                /\ i # 0
                /\ cache[u].value.username = u
                /\ cache[u].value.id = str(users[i].id)
                /\ cache[u].value.email = users[i].email
    /\ (last.op # "none" /\ WrittenKeys # {})
          => /\ \/ last.op = "login" /\ last.status = 200
                                     /\ WrittenKeys = {last.username}
                \/ MissResolved /\ WrittenKeys = {last.token.sub}
             /\ \A k \in WrittenKeys :
                   cache[k].value = UserData(users[PreUser(k)])
    /\ (last.op = "login" /\ last.status # 200) => cache = pre.cache
    /\ (last.op \in {"current_user", "me", "avatar"} /\ ~MissResolved)
          => cache = pre.cache
    /\ last.op \in {"register", "refresh", "confirm", "request_email",
                    "request_reset", "reset_password"}
          => cache = pre.cache

\* A resolution missed the cache and stored the user's snapshot.
C36_Witness ==
    /\ MissResolved
    /\ WrittenKeys = {last.token.sub}
    /\ cache[last.token.sub].value.username = last.token.sub

\* ------------------------------------------------------------------- C37
\* reset-password was handed a token it has honoured before, still
\* unexpired.
ResetTokenPresentedAgain ==
    /\ last.op = "reset_password"
    /\ last.token \in pre.used
    /\ last.token.exp >= now

\* C37: a password-reset token is not single-use. Presented again before it
\* expires it succeeds again, and the hash stored for the user is that of
\* the password supplied with this presentation.
C37_ResetTokenReusable ==
    ResetTokenPresentedAgain
        => /\ last.status = 200
           /\ LET i == get_user_by_email(users, last.token.sub) IN
              /\ i # 0
              /\ verify_password(last.password, users[i].hashed_password)
              /\ \A p \in Passwords \ {last.password} :
                    ~verify_password(p, users[i].hashed_password)

\* A token honoured before was presented again with another password, at a
\* later time, and the password changed once more.
C37_Witness ==
    /\ ResetTokenPresentedAgain
    /\ last.status = 200
    /\ last.token.iat < now
    /\ users # pre.users

\* ------------------------------------------------------------------- C38
\* The caller of the answered create_contact already owned a contact with
\* the email of the request.
CallerOwnsEmail ==
    \E c \in pre.contacts.rows :
        c.email = last.body.email /\ c.user_id = Caller

\* C38: create_contact is answered 400 exactly when the caller already owns
\* a contact with that email, and then the contacts are unchanged; in every
\* other case, also when another user owns a contact with that email, it
\* adds one contact, owned by the caller and with the data of the request.
C38_CreateContactDuplicateEmail ==
    (last.op = "create_contact" /\ Resolved)
        => /\ (last.status = 400) <=> CallerOwnsEmail
           /\ CallerOwnsEmail => contacts.rows = pre.contacts.rows
           /\ ~CallerOwnsEmail
                 => /\ last.status = 201
                    /\ \E c \in contacts.rows \ pre.contacts.rows :
                          /\ contacts.rows = pre.contacts.rows \cup {c}
                          /\ c.user_id = Caller
                          /\ c.email = last.body.email

\* What the code keeps: 400 exactly when the caller owns the email, 500
\* with nothing created when only another user does, 201 with one new
\* contact of the caller otherwise.
CreateContactOutcomes ==
    (last.op = "create_contact" /\ Resolved)
        => LET elsewhere == \E c \in pre.contacts.rows :
                               c.email = last.body.email
           IN
           /\ (last.status = 400) <=> CallerOwnsEmail
           /\ (last.status = 500) <=> (elsewhere /\ ~CallerOwnsEmail)
           /\ last.status # 201 => contacts.rows = pre.contacts.rows
           /\ (last.status = 201) <=> ~elsewhere
           /\ last.status = 201
                 => \E c \in contacts.rows \ pre.contacts.rows :
                       /\ contacts.rows = pre.contacts.rows \cup {c}
                       /\ c.user_id = Caller
                       /\ c.email = last.body.email

\* ------------------------------------------------------------------- C39
\* The contact the answered update_contact addressed, as the caller's
\* contact it was before the request; NoContact when the caller owned none
\* with that id.
UpdateTarget ==
    OneOrNone({c \in pre.contacts.rows :
                  c.id = last.contact_id /\ c.user_id = Caller})

\* The email of the request belongs to another contact of the caller.
EmailOfSiblingContact ==
    \E c \in pre.contacts.rows :
        /\ c.user_id = Caller
        /\ c.email = last.body.email
        /\ c.id # last.contact_id

\* The field of the contact after the update: the value of the request when
\* the request set it, the former value otherwise.
FieldAfter(sent, former) == IF sent = Unset THEN former ELSE sent

\* C39: update_contact changes the fields the request set and nothing
\* else: the other fields, the owner and every other contact stay as they
\* were. It is answered 404 when the caller owns no contact with that id
\* and 400 when the email of the request belongs to another contact of the
\* caller, and changes nothing then. An update to the contact's own current
\* email is accepted.
C39_UpdateContactFrame ==
    (last.op = "update_contact" /\ Resolved)
        => /\ UpdateTarget.id = 0
                 => last.status = 404 /\ contacts = pre.contacts
           /\ (UpdateTarget.id # 0 /\ EmailOfSiblingContact)
                 => last.status = 400 /\ contacts = pre.contacts
           /\ \A c \in pre.contacts.rows :
                 c.id # last.contact_id => c \in contacts.rows
           /\ {c.id : c \in contacts.rows} = {c.id : c \in pre.contacts.rows}
           /\ last.status # 200 => contacts.rows = pre.contacts.rows
           /\ last.status = 200
                 => /\ UpdateTarget.id # 0
                    /\ contacts.rows = (pre.contacts.rows \ {UpdateTarget})
                          \cup {[id |-> UpdateTarget.id,
                                 user_id |-> UpdateTarget.user_id,
                                 first_name |->
                                     FieldAfter(last.body.first_name,
                                                UpdateTarget.first_name),
                                 email |->
                                     FieldAfter(last.body.email,
                                                UpdateTarget.email),
                                 additional_data |->
                                     FieldAfter(last.body.additional_data,
                                                UpdateTarget.additional_data)]}
           /\ (UpdateTarget.id # 0 /\ last.body.email = UpdateTarget.email)
                 => last.status = 200

\* A contact with a note was given a new email, the request setting nothing
\* else, while the caller owned another contact: name and note stayed.
C39_Witness ==
    /\ last.op = "update_contact"
    /\ Resolved
    /\ last.status = 200
    /\ last.body.email \notin {Unset, UpdateTarget.email}
    /\ last.body.first_name = Unset
    /\ last.body.additional_data = Unset
    /\ UpdateTarget.additional_data = "note"
    /\ \E c \in contacts.rows : c.id # last.contact_id /\ c.user_id = Caller

\* An update to the email of a contact of another user, or to a null email,
\* ends in 500 with nothing changed.
UpdateContactIntegrityError ==
    /\ last.op = "update_contact"
    /\ Resolved
    /\ last.status = 500
    /\ contacts = pre.contacts

====
